---- MODULE Spec2Model ----
(***************************************************************************)
(* A model of the LLM rotation engine (vozdipovo_app/llm/rotator.py,       *)
(* vozdipovo_app/llm/errors.py, vozdipovo_app/llm/http_transport.py) and  *)
(* of the pipeline stage runners                                           *)
(* (vozdipovo_app/modules/*_stage.py) over the news_articles table         *)
(* (vozdipovo_app/db/schema.py).                                           *)
(*                                                                         *)
(* The specifications of the module:                                       *)
(*   SpecRotator    one LLMRotator instance, chat calls and the clock;     *)
(*   SpecOrder      the rotation order of a chat call, on its own;         *)
(*   SpecTransport  the rotator with the HTTP transport behind _dispatch;  *)
(*   SpecClassify   classify_llm_error, on its own;                        *)
(*   SpecPost       HttpTransport.post_json, chunk by chunk;               *)
(*   SpecBackoff    call_with_exponential_backoff (utils/backoff.py);      *)
(*   SpecBackoffLive  the same with fn and time.sleep returning;           *)
(*   SpecStage      judging, generation and revision runs, one at a time;  *)
(*   SpecOverlap    the same runs by two runners that share the store;     *)
(*   SpecStageClient  judging runs with the model pools of the stage       *)
(*                  client (vozdipovo_app/llm/stage_client.py).            *)
(*   SpecCommit     judging runs with the commits of their connection;     *)
(*   SpecScore      calculate_significance_score (director.py);            *)
(*   SpecSession    a chat call with the retries of the HTTP session;      *)
(*   SpecRepeat     judging runs without end under one limit;              *)
(*   SpecRepeatLive   the same with rows that complete and runs that       *)
(*                  keep starting;                                         *)
(*   SpecPublish    publishing runs (modules/publishing_stage.py);         *)
(*   SpecLog        the threads of one LogBuffer (tui/log_buffer.py).      *)
(* The provider clients (GroqClient.chat, OpenRouterClient.chat) and the   *)
(* per-row collaborators (evaluate_article_significance, generate_one,     *)
(* revise_article) are inputs: each call returns or raises one of a small  *)
(* set of outcomes.                                                        *)
(***************************************************************************)
EXTENDS Integers, Sequences, FiniteSets, TLC

VARIABLES
  \* ---- the clock (time.time(), datetime.now) ----
  now,
  \* ---- LLMRotator fields ----
  cooldowns_model,     \* _cooldowns_model: key -> until (0: no entry)
  cooldowns_provider,  \* _cooldowns_provider: provider -> until (0: no entry)
  disabled,            \* _disabled: the keys of the dict
  last_good,           \* _last_good: <<>> (None) or <<spec>>
  \* ---- the frame of the chat call in progress ----
  pc,                  \* idle | dispatch | returned | raised
  preferred_arg,       \* the model= argument, "" when not given
  ordered,             \* local ordered
  idx,                 \* position of the for loop in ordered
  last_err,            \* local last_err ("" for None)
  last_delay,          \* local last_delay
  inflight,            \* <<>> or <<spec>>: the request given to _dispatch
  attempted,           \* specs of the "LLM attempt start" log lines of this call
  skipped,             \* specs the loop of this call passed over
  outcome,             \* what the call returned or raised
  notfound_seen,       \* history: keys that failed with kind not_found
  \* ---- the store ----
  legal_docs,          \* ids of the rows of legal_docs
  articles,            \* rows of news_articles
  next_id,             \* AUTOINCREMENT of news_articles.id
  \* ---- the stage runner processes ----
  runners,             \* the stage-runner processes sharing the store
  run,                 \* runner -> the frame of its stage run
  runs,                \* stage runs started so far
  \* ---- a function applied on its own, or the stage client ----
  call                 \* the function, its arguments, and its result

rotVars == <<cooldowns_model, cooldowns_provider, disabled, last_good, pc,
             preferred_arg, ordered, idx, last_err, last_delay, inflight,
             attempted, skipped, outcome, notfound_seen>>
stageVars == <<legal_docs, articles, next_id, runners, run, runs>>
vars == <<now, rotVars, stageVars, call>>

\* ------------------------------------------------------------------ bounds

\* The clock stops advancing at MaxNow seconds.
MaxNow == 120

\* ------------------------------------------------------- values and helpers

Max(a, b) == IF a >= b THEN a ELSE b

\* Optional[int]
NoneInt == [has |-> FALSE, v |-> 0]
SomeInt(x) == [has |-> TRUE, v |-> x]

\* Python truthiness of an Optional[int]: None and 0 are false.
Truthy(o) == o.has /\ o.v # 0

\* LLMProvider
GROQ == "groq"
OPENROUTER == "openrouter"
LLMProvider == {GROQ, OPENROUTER}

\* ErrorKind
ErrorKind ==
  {"unknown", "network", "timeout", "rate_limit", "auth", "not_found",
   "invalid_request", "provider_unavailable", "parse", "server_error",
   "all_models_unavailable"}

\* ModelSpec(provider, model)
ModelSpec(p, m) == [provider |-> p, model |-> m]

\* ModelSpec.key
Key(spec) == <<spec.provider, spec.model>>

\* LLMRotator.models as configured by the caller: two candidates share the
\* provider groq, and the model id "a" is offered by both providers.
Models ==
  << ModelSpec(GROQ, "a"), ModelSpec(GROQ, "b"), ModelSpec(OPENROUTER, "a") >>

ModelSet == {Models[i] : i \in 1..Len(Models)}
KeySet == {Key(m) : m \in ModelSet}

\* LLMRotator.default_cooldown_seconds
default_cooldown_seconds == 120

\* the floor of max(30, ...) in LLMRotator.chat
MinDelaySeconds == 30

\* The clock advances by this amount between two steps.
Advances == {default_cooldown_seconds}

\* [m for m in seq if m != x]
RECURSIVE Without(_, _)
Without(seq, x) ==
  IF seq = <<>> THEN <<>>
  ELSE IF Head(seq) = x THEN Without(Tail(seq), x)
       ELSE <<Head(seq)>> \o Without(Tail(seq), x)

SeqContains(seq, x) == \E i \in 1..Len(seq) : seq[i] = x

\* ------------------------------------------------------------ the rotator

\* What a provider client is seen to do with one request (GroqClient.chat,
\* OpenRouterClient.chat behind LLMRotator._dispatch).
Contents == {"text", "", " "}

\* A faulty variant: the content is not stripped
Strip_identity(c) == c

\* str(content or "").strip()
Strip(c) == IF c \in {"", " "} THEN "" ELSE c

\* LLMErrorDetails.retry_after_seconds as the clients fill it in: absent,
\* zero, or a wait longer than the default cooldown.
RetryAfterHints == {NoneInt, SomeInt(0), SomeInt(200)}

\* The kinds a provider call fails with.
DispatchKinds == ErrorKind \ {"all_models_unavailable"}

\* LLMErrorDetails (kind, retry_after_seconds, message)
LLMErrorDetails ==
  [kind : DispatchKinds, retry_after_seconds : RetryAfterHints,
   message : {"provider said no"}]
  \cup [kind : {"timeout"}, retry_after_seconds : {NoneInt}, message : {""}]

\* LLMError.reason
Reason(d) == d.kind

\* str(e) of LLMError(details): payload.message or payload.reason or "llm_error"
StrLLMError(d) == IF d.message # "" THEN d.message ELSE Reason(d)

\* The values of the model= argument of chat: none, a configured id, an
\* id no candidate has.
PreferredArgs == {"", "a", "b", "zzz"}

\* LLMRotator._resolve_preferred: the first spec whose model id is m
resolve_preferred_of(models, m) ==
  IF m = "" THEN <<>>
  ELSE IF \E i \in 1..Len(models) : models[i].model = m
       THEN LET i == CHOOSE i \in 1..Len(models) :
                       /\ models[i].model = m
                       /\ \A j \in 1..(i - 1) : models[j].model # m
            IN <<models[i]>>
       ELSE <<>>

\* LLMRotator._resolve_preferred of this rotator
_resolve_preferred(m) == resolve_preferred_of(Models, m)

\* A faulty variant: the candidate put first stays in the rest as well
ordered_models_dup(models, lg, preferred) ==
  IF preferred # <<>> /\ SeqContains(models, preferred[1])
  THEN <<preferred[1]>> \o models
  ELSE IF lg # <<>> /\ SeqContains(models, lg[1])
       THEN <<lg[1]>> \o models
       ELSE models

\* LLMRotator._ordered_models, for a rotator whose models field is models
\* and whose _last_good is lg
ordered_models_of(models, lg, preferred) ==
  IF preferred # <<>> /\ SeqContains(models, preferred[1])
  THEN <<preferred[1]>> \o Without(models, preferred[1])
  ELSE IF lg # <<>> /\ SeqContains(models, lg[1])
       THEN <<lg[1]>> \o Without(models, lg[1])
       ELSE models

\* A faulty variant: the sticky candidate is not put first
_ordered_models_no_sticky(preferred) ==
  IF preferred # <<>> /\ SeqContains(Models, preferred[1])
  THEN <<preferred[1]>> \o Without(Models, preferred[1])
  ELSE Models

\* LLMRotator._ordered_models of this rotator
_ordered_models(preferred) == ordered_models_of(Models, last_good, preferred)

\* A faulty variant: only the candidate's own deadline is read
_is_in_cooldown_model_only(spec) ==
  LET until == cooldowns_model[Key(spec)]
  IN IF until = 0 THEN FALSE ELSE now < until

\* A faulty variant: a deadline, once set, excludes for good
_is_in_cooldown_forever(spec) ==
  cooldowns_provider[spec.provider] # 0 \/ cooldowns_model[Key(spec)] # 0

\* LLMRotator._is_in_cooldown
_is_in_cooldown(spec) ==
  LET p_until == cooldowns_provider[spec.provider]
      until == cooldowns_model[Key(spec)]
  IN IF p_until # 0 /\ now < p_until THEN TRUE
     ELSE IF until = 0 THEN FALSE
          ELSE now < until

\* LLMRotator._is_disabled
_is_disabled(spec) == Key(spec) \in disabled

\* A faulty variant: every candidate of the provider is disabled
_disable_provider(spec) ==
  disabled' = disabled \cup {k \in KeySet : k[1] = spec.provider}

\* A faulty variant: the entry replaces the dict instead of joining it
_disable_replaces(spec) == disabled' = {Key(spec)}

\* LLMRotator._disable
_disable(spec) == disabled' = disabled \cup {Key(spec)}

\* A faulty variant: every candidate of the provider is cooled down
_set_model_cooldown_provider_wide(spec, seconds) ==
  cooldowns_model' =
    [k \in KeySet |-> IF k[1] = spec.provider
                      THEN now + Max(1, seconds)
                      ELSE cooldowns_model[k]]

\* LLMRotator._set_model_cooldown
_set_model_cooldown(spec, seconds) ==
  cooldowns_model' =
    [cooldowns_model EXCEPT ![Key(spec)] = now + Max(1, seconds)]

\* A faulty variant: the provider's deadline is not recorded
_set_provider_cooldown_lost(provider, seconds) ==
  cooldowns_provider' = cooldowns_provider

\* LLMRotator._set_provider_cooldown
_set_provider_cooldown(provider, seconds) ==
  cooldowns_provider' =
    [cooldowns_provider EXCEPT ![provider] = now + Max(1, seconds)]

\* delay = int(max(30, d.retry_after_seconds or self.default_cooldown_seconds))
FailureDelay(d) ==
  Max(MinDelaySeconds,
      IF Truthy(d.retry_after_seconds) THEN d.retry_after_seconds.v
      ELSE default_cooldown_seconds)

\* The keyword parameters of AllModelsUnavailableError.__init__
AllModelsUnavailableError_params == {"tried_models", "last_error", "provider"}

NoOutcome == [t |-> "none", type |-> "", kind |-> "", spec |-> <<>>,
              content |-> "", attrs |-> <<>>]

\* AllModelsUnavailableError(**kwargs): the exception the expression raises.
\* A keyword the constructor does not take makes the call itself raise
\* TypeError; otherwise the error carries kind all_models_unavailable,
\* tried_models and last_error.
AllModelsUnavailableError(kwargs) ==
  IF DOMAIN kwargs \subseteq AllModelsUnavailableError_params
  THEN [t |-> "raise", type |-> "AllModelsUnavailableError",
        kind |-> "all_models_unavailable", spec |-> <<>>,
        content |-> "all models unavailable",
        attrs |-> [n \in {"tried_models", "last_error"} |->
                     IF n \in DOMAIN kwargs THEN kwargs[n] ELSE <<>>]]
  ELSE [t |-> "raise", type |-> "TypeError", kind |-> "", spec |-> <<>>,
        content |-> "AllModelsUnavailableError.__init__() got an unexpected keyword argument 'cooldown_seconds'",
        attrs |-> <<>>]

RotatorInit ==
  /\ cooldowns_model = [k \in KeySet |-> 0]
  /\ cooldowns_provider = [p \in LLMProvider |-> 0]
  /\ disabled = {}
  /\ last_good = <<>>
  /\ pc = "idle"
  /\ preferred_arg = ""
  /\ ordered = <<>>
  /\ idx = 0
  /\ last_err = ""
  /\ last_delay = 0
  /\ inflight = <<>>
  /\ attempted = <<>>
  /\ skipped = {}
  /\ outcome = NoOutcome
  /\ notfound_seen = {}

\* chat, lines 69-72: the candidate at position j is passed over.  The loop
\* reads the rotator as the step leaves it: the failure that came before
\* has been recorded.
Passes(ord, j) == (_is_disabled(ord[j]) \/ _is_in_cooldown(ord[j]))'

\* The first position from i on that the loop does not pass over
\* (Len(ord) + 1 when there is none).
FirstEligible(ord, i) ==
  IF \E j \in i..Len(ord) : ~Passes(ord, j)
  THEN CHOOSE j \in i..Len(ord) :
         /\ ~Passes(ord, j)
         /\ \A k \in i..(j - 1) : Passes(ord, k)
  ELSE Len(ord) + 1

\* chat, lines 68-80 and 123-127: from position i the loop passes over the
\* disabled and cooling candidates and gives the request to the first
\* other one; with none left it raises.
LoopFrom(ord, i, err, delay) ==
  LET j == FirstEligible(ord, i)
  IN /\ idx' = j
     /\ skipped' = (IF i = 1 THEN {} ELSE skipped) \cup
                     {ord[k] : k \in i..(j - 1)}
     /\ IF j <= Len(ord)
        THEN /\ pc' = "dispatch"
             /\ inflight' = <<ord[j]>>
             /\ attempted' = Append(IF i = 1 THEN <<>> ELSE attempted, ord[j])
             /\ outcome' = NoOutcome
        ELSE /\ pc' = "raised"
             /\ inflight' = <<>>
             /\ attempted' = (IF i = 1 THEN <<>> ELSE attempted)
             /\ outcome' = AllModelsUnavailableError(
                             [cooldown_seconds |-> delay,
                              models |-> Len(ord),
                              last_error |-> err])

\* chat, lines 59-80: the call begins and runs to its first request.
ChatStart(model) ==
  /\ pc = "idle"
  /\ UNCHANGED <<now, cooldowns_model, cooldowns_provider, disabled,
                 last_good, notfound_seen, stageVars, call>>
  /\ preferred_arg' = model
  /\ ordered' = _ordered_models(_resolve_preferred(model))
  /\ last_err' = ""
  /\ last_delay' = default_cooldown_seconds
  /\ LoopFrom(_ordered_models(_resolve_preferred(model)), 1, "",
              default_cooldown_seconds)

\* chat, lines 81-88: the client answered with non-empty content.
DispatchOk(content) ==
  /\ pc = "dispatch"
  /\ Strip(content) # ""
  /\ last_good' = inflight
  /\ pc' = "returned"
  /\ outcome' = [t |-> "response", type |-> "", kind |-> "",
                 spec |-> inflight, content |-> content, attrs |-> <<>>]
  /\ inflight' = <<>>
  /\ UNCHANGED <<now, cooldowns_model, cooldowns_provider, disabled,
                 preferred_arg, ordered, idx, last_err, last_delay,
                 attempted, skipped, notfound_seen, stageVars, call>>

\* A faulty variant: the failing candidate becomes the sticky preference
CrashEffect_sticky(msg) ==
  /\ UNCHANGED <<now, cooldowns_provider, disabled, preferred_arg,
                 ordered, notfound_seen, stageVars, call>>
  /\ last_good' = inflight
  /\ last_err' = msg
  /\ last_delay' = default_cooldown_seconds
  /\ _set_model_cooldown(inflight[1], default_cooldown_seconds)
  /\ LoopFrom(ordered, idx + 1, msg, default_cooldown_seconds)

\* chat, lines 111-121: the generic handler (the ValueError of an empty
\* completion, or an exception of the client that is no LLMError), and the
\* loop goes on.
CrashEffect(msg) ==
  /\ UNCHANGED <<now, cooldowns_provider, disabled, last_good, preferred_arg,
                 ordered, notfound_seen, stageVars, call>>
  /\ last_err' = msg
  /\ last_delay' = default_cooldown_seconds
  /\ _set_model_cooldown(inflight[1], default_cooldown_seconds)
  /\ LoopFrom(ordered, idx + 1, msg, default_cooldown_seconds)

\* chat, lines 85-86 then 111-121: an empty completion.
DispatchEmpty(content) ==
  /\ pc = "dispatch"
  /\ Strip(content) = ""
  /\ CrashEffect("Resposta vazia do LLM")

\* chat, lines 111-121: the client raised something that is no LLMError.
DispatchCrash ==
  /\ pc = "dispatch"
  /\ CrashEffect("client crashed")

\* chat, lines 89-110: the client raised LLMError(d), and the loop goes on.
DispatchLLMError(d) ==
  /\ pc = "dispatch"
  /\ UNCHANGED <<now, last_good, preferred_arg, ordered, stageVars, call>>
  /\ last_err' = StrLLMError(d)
  /\ last_delay' = FailureDelay(d)
  /\ IF d.kind = "not_found"
     THEN /\ _disable(inflight[1])
          /\ notfound_seen' = notfound_seen \cup {Key(inflight[1])}
          /\ UNCHANGED <<cooldowns_model, cooldowns_provider>>
     ELSE IF d.kind = "rate_limit"
          THEN /\ _set_provider_cooldown(inflight[1].provider, FailureDelay(d))
               /\ UNCHANGED <<cooldowns_model, disabled, notfound_seen>>
          ELSE /\ _set_model_cooldown(inflight[1], FailureDelay(d))
               /\ UNCHANGED <<cooldowns_provider, disabled, notfound_seen>>
  /\ LoopFrom(ordered, idx + 1, StrLLMError(d), FailureDelay(d))

\* The caller has the result or the exception: the frame of the call is
\* gone and the rotator waits for the next call.
ChatDone ==
  /\ pc \in {"returned", "raised"}
  /\ pc' = "idle"
  /\ preferred_arg' = ""
  /\ ordered' = <<>>
  /\ idx' = 0
  /\ last_err' = ""
  /\ last_delay' = 0
  /\ attempted' = <<>>
  /\ skipped' = {}
  /\ outcome' = NoOutcome
  /\ UNCHANGED <<now, cooldowns_model, cooldowns_provider, disabled,
                 last_good, inflight, notfound_seen, stageVars, call>>

\* Time passes: between two calls, and while a request is with a provider.
Tick(d) ==
  /\ pc \in {"idle", "dispatch"}
  /\ now + d <= MaxNow
  /\ now' = now + d
  /\ UNCHANGED <<rotVars, stageVars, call>>

\* The stage part at rest: an empty store and no runner.
StageIdle ==
  /\ legal_docs = {}
  /\ articles = {}
  /\ next_id = 1
  /\ runners = {}
  /\ run = <<>>
  /\ runs = 0

\* No function is applied on its own.
NoCall == [fn |-> "none", done |-> FALSE]

InitRotator == now = 0 /\ RotatorInit /\ StageIdle /\ call = NoCall

NextRotator ==
  \/ \E m \in PreferredArgs : ChatStart(m)
  \/ \E c \in Contents : DispatchOk(c)
  \/ \E c \in Contents : DispatchEmpty(c)
  \/ DispatchCrash
  \/ \E d \in LLMErrorDetails : DispatchLLMError(d)
  \/ ChatDone
  \/ \E d \in Advances : Tick(d)

SpecRotator == InitRotator /\ [][NextRotator]_vars

\* --------------------------------------- the rotation order, on its own

\* The models field holds at most MaxModels entries.
MaxModels == 3

\* The lists the models field can hold: _build_rotator appends the entries
\* of the two pools as configured (resolve_model_pool drops no repeated
\* entry) and raises on an empty list.
ConfiguredLists == UNION {[1..n -> ModelSet] : n \in 1..MaxModels}

\* _last_good: None, or a candidate that answered an earlier call
LastGoods == {<<>>} \cup {<<m>> : m \in ModelSet}

\* chat, lines 60-61, for a rotator with the given models and _last_good
OrderedCall(models, lg, m) ==
  [fn |-> "_ordered_models", done |-> FALSE, models |-> models,
   last_good |-> lg, model |-> m, resolved |-> <<>>, result |-> <<>>]

InitOrder ==
  /\ now = 0
  /\ RotatorInit
  /\ StageIdle
  /\ call \in {OrderedCall(ms, lg, m) :
                 ms \in ConfiguredLists, lg \in LastGoods, m \in PreferredArgs}

\* ordered = self._ordered_models(preferred=self._resolve_preferred(model))
ApplyOrdered ==
  /\ call.fn = "_ordered_models"
  /\ ~call.done
  /\ call' = [call EXCEPT
                !.done = TRUE,
                !.resolved = resolve_preferred_of(call.models, call.model),
                !.result = ordered_models_of(
                             call.models, call.last_good,
                             resolve_preferred_of(call.models, call.model))]
  /\ UNCHANGED <<now, rotVars, stageVars>>

NextOrder == ApplyOrdered

SpecOrder == InitOrder /\ [][NextOrder]_vars

\* ------------------------------------------------- claims on the rotator

InSeq(seq) == {seq[i] : i \in 1..Len(seq)}

\* C1: the candidate a request has been given to is not in cooldown: neither
\* its own deadline nor its provider's deadline lies in the future.
C1_NeverDispatchedWhileCooling ==
  inflight # <<>> =>
    /\ ~(now < cooldowns_model[Key(inflight[1])])
    /\ ~(now < cooldowns_provider[inflight[1].provider])

\* C1 witness: a request is with a candidate whose own deadline has passed,
\* after the loop passed over a candidate that is still cooling.
C1_Witness ==
  /\ pc = "dispatch"
  /\ cooldowns_model[Key(inflight[1])] # 0
  /\ \E s \in skipped :
       now < cooldowns_model[Key(s)] \/ now < cooldowns_provider[s.provider]

\* C2: a rate_limit failure of a candidate of provider P leaves every
\* candidate of P in cooldown, whatever its own deadline, and changes
\* nothing for the other providers; the next request of the same call goes
\* to another provider; only a rate_limit failure sets a provider deadline;
\* and no request is given to a candidate of P before P's deadline.
C2_ProviderCooldownSuppressesAll ==
  /\ [](inflight # <<>> =>
          now >= cooldowns_provider[inflight[1].provider])
  /\ [][\A d \in LLMErrorDetails :
          (d.kind = "rate_limit" /\ DispatchLLMError(d)) =>
            /\ \A m \in ModelSet :
                 m.provider = inflight[1].provider => _is_in_cooldown(m)'
            /\ \A m \in ModelSet :
                 m.provider # inflight[1].provider =>
                   /\ _is_in_cooldown(m)' = _is_in_cooldown(m)
                   /\ cooldowns_provider'[m.provider] =
                        cooldowns_provider[m.provider]
            /\ cooldowns_model' = cooldowns_model
            /\ inflight' # <<>> =>
                 inflight'[1].provider # inflight[1].provider]_vars
  /\ [][cooldowns_provider' # cooldowns_provider =>
          \E d \in LLMErrorDetails :
            d.kind = "rate_limit" /\ DispatchLLMError(d)]_vars

\* C2 witness: groq is cooling; groq/b, which has no deadline of its own and
\* was not tried in this call, was passed over, and the request went to
\* the candidate of openrouter.
C2_Witness ==
  /\ pc = "dispatch"
  /\ inflight[1].provider = OPENROUTER
  /\ now < cooldowns_provider[GROQ]
  /\ ModelSpec(GROQ, "b") \in skipped
  /\ ModelSpec(GROQ, "b") \notin InSeq(attempted)
  /\ cooldowns_model[Key(ModelSpec(GROQ, "b"))] = 0

\* C3: a candidate that has failed with kind not_found is never given a
\* request again.
C3_NotFoundNeverDispatchedAgain ==
  inflight # <<>> => Key(inflight[1]) \notin notfound_seen

\* C3 witness: a later call, after time has passed and another candidate
\* has answered, passes over the candidate that failed with not_found.
C3_Witness ==
  /\ pc = "dispatch"
  /\ now = MaxNow
  /\ last_good # <<>>
  /\ \E s \in skipped :
       /\ Key(s) \in notfound_seen
       /\ ~(now < cooldowns_model[Key(s)])
       /\ ~(now < cooldowns_provider[s.provider])

\* C4: a call that returns returns the non-empty answer of the candidate
\* at the loop's position; every candidate before it in the rotation order
\* was passed over (disabled or cooling) or was tried and is now disabled or
\* has a deadline; no candidate after it was tried; and it is the sticky
\* candidate, first in the order of a next call without a preferred model.
C4_FirstAnsweringCandidateWins ==
  pc = "returned" =>
    /\ outcome.t = "response"
    /\ Strip(outcome.content) # ""
    /\ outcome.spec = <<ordered[idx]>>
    /\ attempted[Len(attempted)] = ordered[idx]
    /\ \A j \in 1..(idx - 1) :
         \/ ordered[j] \in skipped
         \/ /\ ordered[j] \in InSeq(attempted)
            /\ \/ Key(ordered[j]) \in disabled
               \/ cooldowns_model[Key(ordered[j])] # 0
               \/ cooldowns_provider[ordered[j].provider] # 0
    /\ \A j \in (idx + 1)..Len(ordered) : ordered[j] \notin InSeq(attempted)
    /\ last_good = outcome.spec
    /\ _ordered_models(<<>>)[1] = outcome.spec[1]

\* C4 witness: of three candidates the first failed and has a deadline, the
\* second answered and is sticky, the third was not tried.
C4_Witness ==
  /\ pc = "returned"
  /\ Len(ordered) = 3
  /\ idx = 2
  /\ attempted = <<ordered[1], ordered[2]>>
  /\ skipped = {}
  /\ now < cooldowns_model[Key(ordered[1])]
  /\ last_good = <<ordered[2]>>
  /\ ordered[2] # Models[1]

\* C5 (as claimed): a call in which every candidate was passed over or
\* failed raises AllModelsUnavailableError of kind all_models_unavailable
\* that exposes the number of candidates, the last error message and the
\* delay of the last failure.
C5_RaisesAllModelsUnavailable ==
  pc = "raised" =>
    /\ outcome.type = "AllModelsUnavailableError"
    /\ outcome.kind = "all_models_unavailable"
    /\ "models" \in DOMAIN outcome.attrs
    /\ outcome.attrs["models"] = Len(ordered)
    /\ "last_error" \in DOMAIN outcome.attrs
    /\ outcome.attrs["last_error"] = last_err
    /\ "cooldown_seconds" \in DOMAIN outcome.attrs
    /\ outcome.attrs["cooldown_seconds"] = last_delay

\* --------------------------------------------------------- the store

\* The rows of legal_docs the scrapers have left in the store.
NumDocs == 3
Docs == 1..NumDocs

\* Stage runs started in one behaviour.
MaxRuns == 3

\* A NULL text column.
NULL == "NULL"

\* final_score as the judge returns it, and the significance_threshold the
\* stages are constructed with (one score under it, one over).
ScoreSet == {2, 7}
SignificanceThresholds == {5}

\* The limit argument of a stage.
Limits == {2, NumDocs}

\* A row of news_articles (db/schema.py): the columns the stages select on
\* and write.  Columns an INSERT does not name take their DEFAULT, NULL.
NewArticle(id, legal_doc_id) ==
  [id |-> id, legal_doc_id |-> legal_doc_id, review_status |-> NULL,
   review_error |-> NULL, review_error_kind |-> NULL,
   review_http_status |-> NoneInt, review_attempts |-> 0,
   review_next_retry_at |-> NoneInt, final_score |-> NoneInt,
   decision |-> NULL, corpo_md |-> NULL]

\* The rows of a table for one legal_doc_id: what the unique index
\* idx_news_articles_legal_doc_id_uq finds for ON CONFLICT(legal_doc_id).
RowsOf(tbl, d) == {r \in tbl : r.legal_doc_id = d}

\* A faulty variant: the index finds nothing
Conflict_none(tbl, d) == {}

\* ON CONFLICT(legal_doc_id): the row the INSERT collides with.
Conflict(tbl, d) == {r \in tbl : r.legal_doc_id = d}

RECURSIVE SortDesc(_)
SortDesc(S) ==
  IF S = {} THEN <<>>
  ELSE LET m == CHOOSE x \in S : \A y \in S : y <= x
       IN <<m>> \o SortDesc(S \ {m})

RECURSIVE Repeat(_, _)
Repeat(x, n) == IF n = 0 THEN <<>> ELSE <<x>> \o Repeat(x, n - 1)

RECURSIVE Flatten(_)
Flatten(ss) == IF ss = <<>> THEN <<>> ELSE Head(ss) \o Flatten(Tail(ss))

\* LIMIT ?
Take(seq, n) == SubSeq(seq, 1, IF Len(seq) < n THEN Len(seq) ELSE n)

\* ------------------------------------------------- classify_llm_error

\* An exception as classify_llm_error reads it: its class, the details of an
\* LLMError, str(e), the first three-digit status _extract_http_status finds
\* in str(e), and which of the substrings that classify_llm_error looks for
\* occur in str(e).lower().
Exc(cls, kind, status_code, retry_after, msg, msg_status, marks) ==
  [cls |-> cls, kind |-> kind, status_code |-> status_code,
   retry_after_seconds |-> retry_after, msg |-> msg,
   msg_status |-> msg_status, marks |-> marks]

\* LLMError.retryable
Retryable(e) ==
  e.kind \in {"network", "timeout", "rate_limit", "provider_unavailable",
              "server_error"}

\* LLMError.cooldown_seconds
CooldownSeconds(e) ==
  IF e.retry_after_seconds.has THEN Max(0, e.retry_after_seconds.v)
  ELSE IF e.kind = "rate_limit" THEN 600
  ELSE IF e.kind \in {"timeout", "network"} THEN 90
  ELSE IF e.kind \in {"provider_unavailable", "server_error"} THEN 120
  ELSE 0

\* LLMErrorClassification(retryable, cooldown_seconds, reason, http_status)
LLMErrorClassification(retryable, cooldown_seconds, reason, http_status) ==
  [retryable |-> retryable, cooldown_seconds |-> cooldown_seconds,
   reason |-> reason, http_status |-> http_status]

StatusIn(o, S) == o.has /\ o.v \in S

\* classify_llm_error
classify_llm_error(e) ==
  LET http_status == e.msg_status
      has(w) == w \in e.marks
  IN IF e.cls = "LLMError"
     THEN LLMErrorClassification(Retryable(e), CooldownSeconds(e), e.kind,
                                 e.status_code)
     ELSE IF e.cls = "TimeoutError" \/ has("timeout") \/ has("timed out")
     THEN LLMErrorClassification(TRUE, 90, "timeout", http_status)
     ELSE IF StatusIn(http_status, {429}) \/ has("rate limit")
             \/ has("too many requests") \/ has("rate_limit")
     THEN LLMErrorClassification(TRUE, 600, "rate_limit", SomeInt(429))
     ELSE IF StatusIn(http_status, {401, 403}) \/ has("unauthorized")
             \/ has("forbidden")
     THEN LLMErrorClassification(FALSE, 0, "auth", http_status)
     ELSE IF StatusIn(http_status, {404}) \/ has("not found")
     THEN LLMErrorClassification(FALSE, 0, "not_found", SomeInt(404))
     ELSE IF StatusIn(http_status, {400, 422}) \/ has("bad request")
             \/ has("invalid")
     THEN LLMErrorClassification(FALSE, 0, "invalid_request", http_status)
     ELSE IF StatusIn(http_status, 500..599)
     THEN LLMErrorClassification(TRUE, 120, "server_error", http_status)
     ELSE IF has("overloaded") \/ has("service unavailable")
             \/ has("unavailable")
     THEN LLMErrorClassification(TRUE, 120, "provider_unavailable",
                                 http_status)
     ELSE LLMErrorClassification(FALSE, 0, "unknown", http_status)

\* What a caller of LLMRotator.chat catches when the rotation is exhausted:
\* the exception the raise statement of chat produces.  The message of the
\* TypeError names the class, so "unavailable" occurs in it.
RotatorExhausted ==
  LET o == AllModelsUnavailableError(
             [cooldown_seconds |-> default_cooldown_seconds,
              models |-> Len(Models), last_error |-> "provider said no"])
  IN IF o.type = "TypeError"
     THEN Exc("TypeError", "", NoneInt, NoneInt, o.content, NoneInt,
              {"unavailable"})
     ELSE Exc("LLMError", o.kind, NoneInt, NoneInt, o.content, NoneInt,
              {"unavailable"})

\* What evaluate_article_significance is seen to raise: an LLMError of a
\* provider (HTTP 429), the RuntimeError of director_assess, and the
\* exhausted rotation.
JudgeExceptions ==
  { Exc("LLMError", "rate_limit", SomeInt(429), NoneInt, "rate limited",
        NoneInt, {}),
    Exc("RuntimeError", "", NoneInt, NoneInt, "Falha no Director",
        NoneInt, {}),
    RotatorExhausted }

\* -------------------------------------------------- the HTTP transport

\* A header of a response: absent, a decimal number, or a text float()
\* rejects (an HTTP date).
NoHeader == [form |-> "absent", n |-> 0]
NumberHeader(n) == [form |-> "number", n |-> n]
DateHeader == [form |-> "date", n |-> 0]

\* int(float(v)) of a header value; None when absent or when float() raises
IntOfHeader(h) == IF h.form = "number" THEN SomeInt(h.n) ELSE NoneInt

\* parse_retry_after_seconds
parse_retry_after_seconds(headers) == IntOfHeader(headers.retry_after)

\* parse_ratelimit_reset_epoch_seconds
parse_ratelimit_reset_epoch_seconds(headers) == IntOfHeader(headers.reset)

\* HTTPTransport._kind_from_status
_kind_from_status(status) ==
  IF status = 401 \/ status = 403 THEN "auth"
  ELSE IF status = 404 THEN "not_found"
  ELSE IF status = 429 THEN "rate_limit"
  ELSE IF status = 400 \/ status = 422 THEN "invalid_request"
  ELSE IF 500 <= status /\ status < 600 THEN "provider_unavailable"
  ELSE "unknown"

\* The fields of the dataclass LLMErrorDetails
LLMErrorDetails_fields ==
  {"kind", "provider", "model", "status_code", "retry_after_seconds",
   "message", "raw", "extra"}

\* No exception: the call returned.
NoExc == Exc("", "", NoneInt, NoneInt, "", NoneInt, {})

\* raise LLMError(LLMErrorDetails(**kwargs)): the exception the statement
\* raises.  A keyword that is no field of the dataclass makes the
\* constructor raise TypeError before there is an LLMError.
RaiseLLMError(kwargs) ==
  IF DOMAIN kwargs \subseteq LLMErrorDetails_fields
  THEN Exc("LLMError", kwargs.kind,
           IF "status_code" \in DOMAIN kwargs THEN kwargs.status_code
           ELSE NoneInt,
           IF "retry_after_seconds" \in DOMAIN kwargs
           THEN kwargs.retry_after_seconds ELSE NoneInt,
           kwargs.message, NoneInt, {})
  ELSE Exc("TypeError", "", NoneInt, NoneInt,
           "LLMErrorDetails.__init__() got an unexpected keyword argument 'meta'",
           NoneInt, {})

\* HTTPTransport._handle_response_text at time t: NoExc when it returns the
\* parsed object, else the exception it raises.
_handle_response_text(r, t) ==
  IF 200 <= r.status /\ r.status < 300
  THEN IF r.body = "object" THEN NoExc
       ELSE RaiseLLMError(
              [kind |-> "parse", provider |-> "p", model |-> "m",
               status_code |-> SomeInt(r.status),
               message |-> "JSON is not an object", raw |-> r.body])
  ELSE LET parsed == parse_retry_after_seconds(r.headers)
           retry_after0 == IF Truthy(parsed) THEN parsed.v ELSE 0
           reset_epoch == parse_ratelimit_reset_epoch_seconds(r.headers)
           retry_after ==
             IF r.status = 429 /\ Truthy(reset_epoch)
             THEN Max(retry_after0, reset_epoch.v - t)
             ELSE retry_after0
       IN RaiseLLMError(
            [kind |-> _kind_from_status(r.status), provider |-> "p",
             model |-> "m", status_code |-> SomeInt(r.status),
             retry_after_seconds |->
               IF retry_after > 0 THEN SomeInt(retry_after) ELSE NoneInt,
             message |-> "provider said no", raw |-> r.body,
             meta |-> "url"])

\* The status codes of the responses.
Statuses == {200, 401, 403, 404, 429, 500, 503}

\* The responses a request can get at time t: the reset header, when
\* present, names an epoch 300 s ahead.
Responses(t) ==
  [status : Statuses,
   headers : [retry_after : {NoHeader, NumberHeader(200), DateHeader},
              reset : {NoHeader, NumberHeader(t + 300)}],
   body : {"object", "text"}]

\* chat, lines 80 and 89-121, with post_json behind _dispatch: the response
\* r makes _handle_response_text raise, the client lets the exception
\* through, and chat handles it.
DispatchHTTP(r) ==
  /\ pc = "dispatch"
  /\ LET e == _handle_response_text(r, now)
     IN /\ e.cls # ""
        /\ IF e.cls = "LLMError"
           THEN DispatchLLMError(
                  [kind |-> e.kind,
                   retry_after_seconds |-> e.retry_after_seconds,
                   message |-> e.msg])
           ELSE CrashEffect(e.msg)

\* post_json, lines 85-110: the request got no response; requests.Timeout
\* and requests.RequestException become LLMError of kind timeout and network.
DispatchNoResponse(kind) ==
  DispatchLLMError(
    [kind |-> kind, retry_after_seconds |-> NoneInt, message |-> "no response"])

NextTransport ==
  \/ \E m \in PreferredArgs : ChatStart(m)
  \/ \E c \in Contents : DispatchOk(c)
  \/ \E c \in Contents : DispatchEmpty(c)
  \/ \E r \in Responses(now) : DispatchHTTP(r)
  \/ \E k \in {"timeout", "network"} : DispatchNoResponse(k)
  \/ ChatDone
  \/ \E d \in Advances : Tick(d)

SpecTransport == InitRotator /\ [][NextTransport]_vars

\* ------------------------------------------- post_json, step by step

\* _read_with_total_timeout: max_bytes
max_bytes == 2000000

\* _read_with_total_timeout: the chunk_size given to iter_content
chunk_size == 65536

\* A body arrives in at most MaxChunks chunks.
MaxChunks == 32

\* The sizes of the chunks iter_content yields: a full chunk, the chunk
\* that completes 30 full ones to max_bytes, one byte.
ChunkBytes == {chunk_size, max_bytes - 30 * chunk_size, 1}

\* HTTPTransport.timeout_seconds
TimeoutSettings == {0, 2}

\* The seconds s.post takes until it raises or has the response headers
\* (connect and read timeouts apply one after the other, and the session
\* retries), and the seconds a chunk takes to arrive.
PostSeconds == {0, 1, 3}
ChunkSeconds == {0, 1}

\* The status codes of the responses to post_json.
PostStatuses == {200, 429, 500}

\* The frame of a call of post_json: elapsed is perf_counter() - t0.
PostCall(ts) ==
  [fn |-> "post_json", done |-> FALSE, pc |-> "post", timeout_seconds |-> ts,
   elapsed |-> 0, status |-> 0, size |-> 0, chunks |-> 0, closed |-> FALSE,
   parsed |-> FALSE, result |-> NoExc]

\* post_json, line 78
total_timeout(c) == Max(1, c.timeout_seconds)

InitPost ==
  /\ now = 0
  /\ RotatorInit
  /\ StageIdle
  /\ call \in {PostCall(ts) : ts \in TimeoutSettings}

\* post_json, lines 85-110: s.post raises requests.Timeout (kind timeout)
\* or another requests.RequestException (kind network).
SessionPostRaises(kind, dt) ==
  /\ call.fn = "post_json"
  /\ call.pc = "post"
  /\ call' = [call EXCEPT
                !.pc = "raised", !.done = TRUE, !.elapsed = dt,
                !.result = RaiseLLMError(
                             [kind |-> kind, provider |-> "p", model |-> "m",
                              message |-> "no response"])]
  /\ UNCHANGED <<now, rotVars, stageVars>>

\* post_json, lines 85-92: s.post returns the response, its body unread
\* (stream=True).
SessionPostResponds(status, dt) ==
  /\ call.fn = "post_json"
  /\ call.pc = "post"
  /\ call' = [call EXCEPT !.pc = "drain", !.elapsed = dt, !.status = status]
  /\ UNCHANGED <<now, rotVars, stageVars>>

\* A faulty variant: the size of the body is not tested
ReadChunk_uncapped(bytes, dt) ==
  /\ call.fn = "post_json"
  /\ call.pc = "drain"
  /\ call.chunks < MaxChunks
  /\ LET elapsed == call.elapsed + dt
         c == [call EXCEPT !.elapsed = elapsed, !.size = @ + bytes,
                           !.chunks = @ + 1]
     IN call' =
          IF elapsed > total_timeout(call)
          THEN [c EXCEPT
                  !.pc = "raised", !.done = TRUE, !.closed = TRUE,
                  !.result = RaiseLLMError(
                               [kind |-> "timeout", provider |-> "p",
                                model |-> "m",
                                status_code |-> SomeInt(call.status),
                                message |-> "Timeout total excedido"])]
          ELSE c
  /\ UNCHANGED <<now, rotVars, stageVars>>

\* _read_with_total_timeout, lines 140-175: one turn of the loop.  The
\* chunk is appended, then the elapsed time is tested, then the size.
ReadChunk(bytes, dt) ==
  /\ call.fn = "post_json"
  /\ call.pc = "drain"
  /\ call.chunks < MaxChunks
  /\ LET elapsed == call.elapsed + dt
         current_size == call.size + bytes
         c == [call EXCEPT !.elapsed = elapsed, !.size = current_size,
                           !.chunks = @ + 1]
     IN call' =
          IF elapsed > total_timeout(call)
          THEN [c EXCEPT
                  !.pc = "raised", !.done = TRUE, !.closed = TRUE,
                  !.result = RaiseLLMError(
                               [kind |-> "timeout", provider |-> "p",
                                model |-> "m",
                                status_code |-> SomeInt(call.status),
                                message |-> "Timeout total excedido"])]
          ELSE IF current_size > max_bytes
          THEN [c EXCEPT
                  !.pc = "raised", !.done = TRUE, !.closed = TRUE,
                  !.result = RaiseLLMError(
                               [kind |-> "invalid_request", provider |-> "p",
                                model |-> "m",
                                status_code |-> SomeInt(call.status),
                                message |-> "Resposta demasiado grande"])]
          ELSE c
  /\ UNCHANGED <<now, rotVars, stageVars>>

\* _read_with_total_timeout, line 140: iter_content raises (the connection
\* broke while the body was read); post_json, lines 123-127, closes the
\* response and lets the exception through.
ReadError ==
  /\ call.fn = "post_json"
  /\ call.pc = "drain"
  /\ call' = [call EXCEPT
                !.pc = "raised", !.done = TRUE, !.closed = TRUE,
                !.result = Exc("ChunkedEncodingError", "", NoneInt, NoneInt,
                               "Connection broken", NoneInt, {})]
  /\ UNCHANGED <<now, rotVars, stageVars>>

\* _read_with_total_timeout, lines 176-177, and post_json, lines 112-127:
\* the body is complete and goes to _handle_response_text.  A body of no
\* byte is no JSON object.  The end of the body is seen dt seconds after
\* the last chunk, and no test of the elapsed time follows it.
ReadEnd(body, dt) ==
  /\ call.fn = "post_json"
  /\ call.pc = "drain"
  /\ call.size = 0 => body = "text"
  /\ LET e == _handle_response_text(
                [status |-> call.status,
                 headers |-> [retry_after |-> NoHeader, reset |-> NoHeader],
                 body |-> body], now)
     IN call' = [call EXCEPT
                   !.pc = IF e.cls = "" THEN "returned" ELSE "raised",
                   !.done = TRUE, !.closed = TRUE,
                   !.elapsed = call.elapsed + dt,
                   !.parsed = (e.cls = ""),
                   !.result = e]
  /\ UNCHANGED <<now, rotVars, stageVars>>

NextPost ==
  \/ \E k \in {"timeout", "network"}, dt \in PostSeconds :
       SessionPostRaises(k, dt)
  \/ \E st \in PostStatuses, dt \in PostSeconds : SessionPostResponds(st, dt)
  \/ \E b \in ChunkBytes, dt \in ChunkSeconds : ReadChunk(b, dt)
  \/ ReadError
  \/ \E body \in {"object", "text"}, dt \in ChunkSeconds : ReadEnd(body, dt)

SpecPost == InitPost /\ [][NextPost]_vars

\* ------------------------------------------------ the backoff executor

\* The largest max_retries and retries a caller gives.
MaxRetryBudget == 3

RECURSIVE Pow2(_)
Pow2(n) == IF n = 0 THEN 1 ELSE 2 * Pow2(n - 1)

Min(a, b) == IF a <= b THEN a ELSE b

\* What fn raises: exceptions is_retryable accepts and refuses, and a
\* rate-limit LLMError whose details hold the provider's retry_after_seconds.
FnExceptions ==
  {[name |-> "Transient", retryable |-> TRUE, retry_after_seconds |-> NoneInt],
   [name |-> "RateLimited", retryable |-> TRUE,
    retry_after_seconds |-> SomeInt(7)],
   [name |-> "Permanent", retryable |-> FALSE,
    retry_after_seconds |-> NoneInt]}

NoFnException ==
  [name |-> "", retryable |-> FALSE, retry_after_seconds |-> NoneInt]

\* The arguments of call_with_exponential_backoff.  base_delay, max_delay
\* and retry_after_seconds are seconds, jitter is hundredths; max_delay is
\* a power of two times base_delay or not, and the third retry is past it.
BackoffArgs ==
  [max_retries : 0..MaxRetryBudget,
   retries : {NoneInt, SomeInt(2)},
   base_delay : {1},
   max_delay : {2, 3},
   jitter : {0, 25, 50},
   retry_after_seconds : {NoneInt, SomeInt(3), SomeInt(10)},
   is_retryable : {"None", "given"}]

\* The frame of a call: attempt is the local of that name, calls counts the
\* invocations of fn, sleeps holds the arguments of time.sleep in
\* hundredths of a second, raised is what the latest invocation raised.
BackoffCall(args) ==
  [fn |-> "call_with_exponential_backoff", done |-> FALSE, pc |-> "try",
   args |-> args, attempt |-> 0, calls |-> 0, sleeps |-> <<>>,
   raised |-> NoFnException, result |-> NoFnException]

\* lines 70-71: retries, when given, replaces max_retries
EffectiveMaxRetries(args) ==
  IF args.retries.has THEN args.retries.v ELSE args.max_retries

\* random.uniform(-jitter, jitter): both ends and the middle, in hundredths
JitterSamples(args) ==
  IF args.jitter > 0 THEN {0 - args.jitter, 0, args.jitter} ELSE {0}

\* A faulty variant: the exponential value is not held at max_delay
Delay_uncapped(args, attempt, u) ==
  LET jittered == args.base_delay * Pow2(attempt) * (100 + u)
  IN IF args.retry_after_seconds.has
     THEN Max(jittered, 100 * args.retry_after_seconds.v)
     ELSE jittered

\* lines 90-94: the delay in hundredths of a second for the jitter sample u
Delay(args, attempt, u) ==
  LET exponential == Min(args.max_delay, args.base_delay * Pow2(attempt))
      jittered == exponential * (100 + u)
  IN IF args.retry_after_seconds.has
     THEN Max(jittered, 100 * args.retry_after_seconds.v)
     ELSE jittered

\* A faulty variant: is_retryable is not asked
Reraises_budget_only(c, exc) == c.attempt >= EffectiveMaxRetries(c.args)

\* A faulty variant: one retry more than max_retries
Reraises_one_more(c, exc) ==
  \/ c.args.is_retryable # "None" /\ ~exc.retryable
  \/ c.attempt > EffectiveMaxRetries(c.args)

\* lines 85-88: the exception is raised again
Reraises(c, exc) ==
  \/ c.args.is_retryable # "None" /\ ~exc.retryable
  \/ c.attempt >= EffectiveMaxRetries(c.args)

InitBackoff ==
  /\ now = 0
  /\ RotatorInit
  /\ StageIdle
  /\ call \in {BackoffCall(a) : a \in BackoffArgs}

\* line 83: fn returns.
FnReturns ==
  /\ call.fn = "call_with_exponential_backoff"
  /\ call.pc = "try"
  /\ call' = [call EXCEPT !.pc = "returned", !.done = TRUE,
                          !.calls = @ + 1, !.raised = NoFnException]
  /\ UNCHANGED <<now, rotVars, stageVars>>

\* lines 83-99: fn raises exc; the executor raises it again, or sleeps for
\* the delay of the jitter sample u and goes round the loop.
FnRaises(exc, u) ==
  /\ call.fn = "call_with_exponential_backoff"
  /\ call.pc = "try"
  /\ u \in JitterSamples(call.args)
  /\ call' =
       IF Reraises(call, exc)
       THEN [call EXCEPT !.pc = "raised", !.done = TRUE, !.calls = @ + 1,
                         !.raised = exc, !.result = exc]
       ELSE [call EXCEPT
               !.calls = @ + 1, !.raised = exc, !.attempt = @ + 1,
               !.sleeps = Append(@, Max(0, Delay(call.args, call.attempt, u)))]
  /\ UNCHANGED <<now, rotVars, stageVars>>

NextBackoff ==
  \/ FnReturns
  \/ \E exc \in FnExceptions, u \in {-50, -25, 0, 25, 50} : FnRaises(exc, u)

SpecBackoff == InitBackoff /\ [][NextBackoff]_vars

\* time.sleep returns and fn returns or raises: the loop goes on.
SpecBackoffLive == SpecBackoff /\ WF_vars(NextBackoff)

\* ------------------------------------------- the significance score

\* Fractions of 1 are held in ten-thousandths (the code computes in
\* floats): products are cut to that after each multiplication, which
\* leaves the score within 0.01 of the float result.
FixedOne == 10000

\* significance_power: confloat(gt=0.0, le=10.0); the whole powers the
\* model configures.
SignificancePowers == {1, 2, 3}

\* The score sets given to calculate_significance_score: DirectorScores
\* fields, each conint(ge=0, le=10).
ScoreSets ==
  [cv_relevance_score : {0, 1, 2, 8, 10},
   scale_score : {0, 8, 10},
   impact_score : {8, 10},
   novelty_score : {8, 9, 10},
   credibility_score : {8, 10},
   legacy_score : {0, 8, 10},
   potential_score : {0, 1, 8, 10}]

\* x ** p for a whole p, x and the result in ten-thousandths
RECURSIVE FixedPow(_, _)
FixedPow(x, p) ==
  IF p = 0 THEN FixedOne ELSE (x * FixedPow(x, p - 1)) \div FixedOne

\* lines 66-72: final_raw in millionths
final_raw(scores) ==
  LET raw == 40 * scores.cv_relevance_score + 25 * scores.scale_score
             + 20 * scores.impact_score + 10 * scores.novelty_score
             + 5 * scores.credibility_score
      legacy_mult == 70 + 3 * Max(0, Min(10, scores.legacy_score))
      potential_bonus == 100 + Max(0, Min(10, scores.potential_score))
  IN raw * legacy_mult * potential_bonus

\* round(v, 2) of a value in hundred-thousandths, as hundredths
Round2(v) == (v + 500) \div 1000

\* A faulty variant: the power is not applied
calculate_significance_score_linear(scores, p) ==
  IF scores.cv_relevance_score < 2
  THEN Max(0, Min(1000, 50 * scores.cv_relevance_score))
  ELSE Max(0, Min(1000, Round2(Max(0, Min(10000000, final_raw(scores)))
                                \div 10)))

\* calculate_significance_score with significance_power p: the result in
\* hundredths.
calculate_significance_score(scores, p) ==
  IF scores.cv_relevance_score < 2
  THEN Max(0, Min(1000, 50 * scores.cv_relevance_score))
  ELSE LET x == Max(0, Min(10000000, final_raw(scores))) \div 1000
           norm == 10 * FixedPow(x, p)
       IN Max(0, Min(1000, Round2(10 * norm)))

NotComputed == 0 - 1

ScoreCall(scores) ==
  [fn |-> "calculate_significance_score", done |-> FALSE, scores |-> scores,
   results |-> [p \in SignificancePowers |-> NotComputed]]

InitScore ==
  /\ now = 0
  /\ RotatorInit
  /\ StageIdle
  /\ call \in {ScoreCall(sc) : sc \in ScoreSets}

\* The score set is scored with significance_power p configured.
ApplySignificance(p) ==
  /\ call.fn = "calculate_significance_score"
  /\ call.results[p] = NotComputed
  /\ call' = [call EXCEPT
               !.results[p] = calculate_significance_score(call.scores, p),
               !.done = \A q \in SignificancePowers \ {p} :
                           call.results[q] # NotComputed]
  /\ UNCHANGED <<now, rotVars, stageVars>>

NextScore == \E p \in SignificancePowers : ApplySignificance(p)

SpecScore == InitScore /\ [][NextScore]_vars

\* ------------------------------- a chat call and its provider requests

\* HTTPTransport.session, lines 41-50: Retry(total=2, ...)
RetryTotal == 2

\* status_forcelist, with raise_on_status=False
status_forcelist == {429, 500, 502, 503, 504}

\* What one request of the mounted adapter meets: a status, or no response
\* (a connection or read error).
RequestOutcomes == {200, 404, 429, 503, 0}

\* The frame of a chat call over n distinct candidates: idx is the position
\* of the for loop, dispatched the positions given to _dispatch, requests
\* the HTTP requests sent, retries_left what the Retry of the request in
\* progress still allows.
ChatCall(n) ==
  [fn |-> "LLMRotator.chat", done |-> FALSE, pc |-> "loop", n |-> n,
   idx |-> 1, dispatched |-> <<>>, requests |-> 0, retries_left |-> 0,
   outcome |-> NoOutcome]

InitSession ==
  /\ now = 0
  /\ RotatorInit
  /\ StageIdle
  /\ call \in {ChatCall(n) : n \in 1..MaxModels}

\* rotator.py lines 68-72: the candidate is disabled or cooling.
LoopSkip ==
  /\ call.fn = "LLMRotator.chat"
  /\ call.pc = "loop"
  /\ call.idx <= call.n
  /\ call' = [call EXCEPT !.idx = @ + 1]
  /\ UNCHANGED <<now, rotVars, stageVars>>

\* rotator.py lines 74-80, http_transport.py lines 82-92: the candidate is
\* dispatched, and s.post sends its first request.
LoopDispatch ==
  /\ call.fn = "LLMRotator.chat"
  /\ call.pc = "loop"
  /\ call.idx <= call.n
  /\ call' = [call EXCEPT !.pc = "request",
                          !.dispatched = Append(@, call.idx),
                          !.requests = @ + 1,
                          !.retries_left = RetryTotal]
  /\ UNCHANGED <<now, rotVars, stageVars>>

\* The request met o.  The adapter sends the request again after a status
\* of the forcelist or an error while the Retry has a retry left; otherwise
\* s.post returns the response or raises, and the loop of chat returns the
\* answer (lines 85-88) or goes on to the next candidate (lines 89-121).
RequestMeets(o) ==
  /\ call.fn = "LLMRotator.chat"
  /\ call.pc = "request"
  /\ call' =
       IF (o \in status_forcelist \/ o = 0) /\ call.retries_left > 0
       THEN [call EXCEPT !.requests = @ + 1, !.retries_left = @ - 1]
       ELSE IF o = 200
       THEN [call EXCEPT !.pc = "returned", !.done = TRUE,
                         !.outcome = [NoOutcome EXCEPT !.t = "return"]]
       ELSE [call EXCEPT !.pc = "loop", !.idx = @ + 1]
  /\ UNCHANGED <<now, rotVars, stageVars>>

\* rotator.py lines 123-127: the loop is over.
LoopEnd ==
  /\ call.fn = "LLMRotator.chat"
  /\ call.pc = "loop"
  /\ call.idx > call.n
  /\ call' = [call EXCEPT
               !.pc = "raised", !.done = TRUE,
               !.outcome = AllModelsUnavailableError(
                             [cooldown_seconds |-> default_cooldown_seconds,
                              models |-> call.n, last_error |-> ""])]
  /\ UNCHANGED <<now, rotVars, stageVars>>

NextSession ==
  \/ LoopSkip
  \/ LoopDispatch
  \/ \E o \in RequestOutcomes : RequestMeets(o)
  \/ LoopEnd

SpecSession == InitSession /\ [][NextSession]_vars

\* --------------------------------------- the classification, on its own

\* The texts classify_llm_error looks for that the messages here can hold.
ClassifyMarks ==
  {"timed out", "rate limit", "unauthorized", "invalid", "unavailable"}

\* Exceptions that are no LLMError: the class, the first status-like number
\* of the message (_extract_http_status) and the texts the message holds.
RawExceptions ==
  {Exc(cls, "", NoneInt, NoneInt, "message", st, marks) :
     cls \in {"Exception", "TimeoutError"},
     st \in {NoneInt} \cup {SomeInt(n) : n \in Statuses \ {200}},
     marks \in SUBSET ClassifyMarks}

\* _read_with_total_timeout, lines 150-158: the body of a response of any
\* status took too long to read.
ReadTimeoutErrors ==
  {RaiseLLMError([kind |-> "timeout", provider |-> "p", model |-> "m",
                  status_code |-> SomeInt(n),
                  message |-> "Timeout total excedido"]) : n \in Statuses}

\* classify_llm_error(e), where from_status is the status of the response
\* that made the transport raise e (None for an exception of another origin)
ClassifyCall(e, from_status) ==
  [fn |-> "classify_llm_error", done |-> FALSE, e |-> e,
   from_status |-> from_status,
   result |-> LLMErrorClassification(FALSE, 0, "", NoneInt)]

InitClassify ==
  /\ now = 0
  /\ RotatorInit
  /\ StageIdle
  /\ call \in
       {ClassifyCall(e, NoneInt) : e \in RawExceptions \cup ReadTimeoutErrors}
       \cup {ClassifyCall(_handle_response_text(r, 0), SomeInt(r.status)) :
               r \in {x \in Responses(0) :
                        _handle_response_text(x, 0).cls # ""}}

\* cls = classify_llm_error(e)
ApplyClassify ==
  /\ call.fn = "classify_llm_error"
  /\ ~call.done
  /\ call' = [call EXCEPT !.done = TRUE,
                          !.result = classify_llm_error(call.e)]
  /\ UNCHANGED <<now, rotVars, stageVars>>

NextClassify == ApplyClassify

SpecClassify == InitClassify /\ [][NextClassify]_vars

\* ------------------------------------------------------ the stage runs

\* The frame of a runner with no run in progress.
IdleFrame ==
  [stage |-> "none", threshold |-> 0, rows |-> <<>>, ri |-> 0,
   processed |-> 0, result |-> "none", written |-> <<>>, failed |-> {}]

\* The frame of a run that has made its selection: with no rows run()
\* returns 0 at once.
StartFrame(stage, threshold, rows) ==
  [IdleFrame EXCEPT !.stage = stage, !.threshold = threshold,
                    !.rows = rows, !.ri = 1,
                    !.result = IF rows = <<>> THEN "returned" ELSE "running"]

\* The frame after the row at the loop's position got its write; after the
\* last row run() commits and returns.
AfterRow(f, ok) ==
  [f EXCEPT !.ri = f.ri + 1,
            !.processed = IF ok THEN f.processed + 1 ELSE f.processed,
            !.written = Append(f.written, f.rows[f.ri]),
            !.failed = IF ok THEN f.failed ELSE f.failed \cup {f.ri},
            !.result = IF f.ri = Len(f.rows) THEN "returned" ELSE "running"]

\* A runner is at a row of a run of the stage.
AtRow(p, stage) ==
  /\ p \in runners
  /\ run[p].stage = stage
  /\ run[p].result = "running"
  /\ run[p].ri <= Len(run[p].rows)

\* A runner may begin a run.
CanStart(p) ==
  /\ p \in runners
  /\ run[p].stage = "none"
  /\ runs < MaxRuns

\* JudgingStage.run, lines 40-54: per legal_doc, one joined row when it has
\* no article and one per article in RETRY; newest document first.
JudgingSelect(limit) ==
  LET sd == SortDesc(legal_docs)
      n(d) == IF RowsOf(articles, d) = {} THEN 1
              ELSE Cardinality({r \in RowsOf(articles, d) :
                                  r.review_status = "RETRY"})
  IN Take(Flatten([i \in 1..Len(sd) |-> Repeat(sd[i], n(sd[i]))]), limit)

\* decision = "WRITE" if final_score >= threshold else "SKIP"
Decision(final_score, threshold) ==
  IF final_score >= threshold THEN "WRITE" ELSE "SKIP"

\* A faulty variant: the conflict branch counts the attempt
JudgedUpsert_counting(tbl, nid, d, final_score, decision) ==
  LET c == Conflict(tbl, d)
  IN IF c = {}
     THEN tbl \cup {[NewArticle(nid, d) EXCEPT
                       !.final_score = SomeInt(final_score),
                       !.decision = decision,
                       !.review_status = "JUDGED",
                       !.review_attempts = 1]}
     ELSE (tbl \ c) \cup
            {[r EXCEPT !.final_score = SomeInt(final_score),
                       !.decision = decision,
                       !.review_status = "JUDGED",
                       !.review_error = NULL,
                       !.review_error_kind = NULL,
                       !.review_http_status = NoneInt,
                       !.review_next_retry_at = NoneInt,
                       !.review_attempts = r.review_attempts + 1] : r \in c}

\* JudgingStage.run, lines 85-127: INSERT ... 'JUDGED', 1 ... ON
\* CONFLICT(legal_doc_id) DO UPDATE.
JudgedUpsert(tbl, nid, d, final_score, decision) ==
  LET c == Conflict(tbl, d)
  IN IF c = {}
     THEN tbl \cup {[NewArticle(nid, d) EXCEPT
                       !.final_score = SomeInt(final_score),
                       !.decision = decision,
                       !.review_status = "JUDGED",
                       !.review_attempts = 1]}
     ELSE (tbl \ c) \cup
            {[r EXCEPT !.final_score = SomeInt(final_score),
                       !.decision = decision,
                       !.review_status = "JUDGED",
                       !.review_error = NULL,
                       !.review_error_kind = NULL,
                       !.review_http_status = NoneInt,
                       !.review_next_retry_at = NoneInt] : r \in c}

\* A faulty variant: the classification has no attribute kind, and kind
\* stays None
RetryKind_none(cls) == NULL

\* JudgingStage.run, lines 132-146: kind is str(cls.reason), for the
\* classification has no attribute kind; retry_after is 90, for it has no
\* attribute retry_after_seconds.
RetryKind(cls) == cls.reason
RetryAfter(cls) == 90

\* A faulty variant: the failure write puts review_attempts back to 1
RetryUpsert_reset(tbl, nid, d, e, t) ==
  LET cls == classify_llm_error(e)
  IN (tbl \ Conflict(tbl, d)) \cup
       {[NewArticle(IF Conflict(tbl, d) = {} THEN nid ELSE r.id, d) EXCEPT
           !.review_status = "RETRY",
           !.review_error = e.msg,
           !.review_error_kind = RetryKind(cls),
           !.review_http_status = cls.http_status,
           !.review_attempts = 1,
           !.review_next_retry_at = SomeInt(t + RetryAfter(cls))]
         : r \in IF Conflict(tbl, d) = {} THEN {NewArticle(nid, d)}
                 ELSE Conflict(tbl, d)}

\* JudgingStage.run, lines 148-180: INSERT ... 'RETRY' ... 1 ... ON
\* CONFLICT(legal_doc_id) DO UPDATE.
RetryUpsert(tbl, nid, d, e, t) ==
  LET cls == classify_llm_error(e)
      c == Conflict(tbl, d)
  IN IF c = {}
     THEN tbl \cup {[NewArticle(nid, d) EXCEPT
                       !.review_status = "RETRY",
                       !.review_error = e.msg,
                       !.review_error_kind = RetryKind(cls),
                       !.review_http_status = cls.http_status,
                       !.review_attempts = 1,
                       !.review_next_retry_at = SomeInt(t + RetryAfter(cls))]}
     ELSE (tbl \ c) \cup
            {[r EXCEPT !.review_status = "RETRY",
                       !.review_error = e.msg,
                       !.review_error_kind = RetryKind(cls),
                       !.review_http_status = cls.http_status,
                       !.review_attempts = r.review_attempts + 1,
                       !.review_next_retry_at = SomeInt(t + RetryAfter(cls))]
               : r \in c}

\* AUTOINCREMENT: the INSERT that hit no conflict took an id.
NextId(tbl, d) == IF Conflict(tbl, d) = {} THEN next_id + 1 ELSE next_id

\* JudgingStage.run, lines 37-60.
JudgingStart(p, limit, threshold) ==
  /\ CanStart(p)
  /\ run' = [run EXCEPT ![p] =
               StartFrame("judging", threshold, JudgingSelect(limit))]
  /\ runs' = runs + 1
  /\ UNCHANGED <<now, call, rotVars, legal_docs, articles, next_id, runners>>

\* JudgingStage.run, lines 62-129 and 182-190: the judge answered.
JudgingRowOk(p, final_score) ==
  /\ AtRow(p, "judging")
  /\ LET f == run[p]
         d == f.rows[f.ri]
     IN /\ articles' = JudgedUpsert(articles, next_id, d, final_score,
                                    Decision(final_score, f.threshold))
        /\ next_id' = NextId(articles, d)
        /\ run' = [run EXCEPT ![p] = AfterRow(f, TRUE)]
  /\ UNCHANGED <<now, call, rotVars, legal_docs, runners, runs>>

\* JudgingStage.run, lines 62-84 and 131-190: the judge raised e.
JudgingRowRaise(p, e) ==
  /\ AtRow(p, "judging")
  /\ LET f == run[p]
         d == f.rows[f.ri]
     IN /\ articles' = RetryUpsert(articles, next_id, d, e, now)
        /\ next_id' = NextId(articles, d)
        /\ run' = [run EXCEPT ![p] = AfterRow(f, FALSE)]
  /\ UNCHANGED <<now, call, rotVars, legal_docs, runners, runs>>

\* generation_stage._candidates, lines 66-89: the articles the stage may
\* rewrite.
GenerationEligible(threshold) ==
  {r \in articles :
     /\ r.legal_doc_id \in legal_docs
     /\ r.final_score.has /\ r.final_score.v >= threshold
     /\ r.review_status \in {"JUDGED", "FAILED", NULL, ""}
     /\ r.corpo_md \in {NULL, ""}}

\* generation_stage._candidates: ORDER BY score_editorial DESC, final_score
\* DESC LIMIT ?.  score_editorial is not a column of the model, so every
\* order of the eligible articles is one the query can return.
GenerationSelect(limit, threshold) ==
  LET el == GenerationEligible(threshold)
      k == IF Cardinality(el) < limit THEN Cardinality(el) ELSE limit
  IN {[i \in 1..k |-> s[i].legal_doc_id] :
        s \in {t \in [1..k -> el] :
                 \A i, j \in 1..k : i # j => t[i] # t[j]}}

\* What the try block of GenerationStage.run, lines 201-246, is seen to
\* raise: the RuntimeError of a short source (the other exceptions of the
\* block, such as the AttributeError of self.ctx.rotator on a StageContext,
\* differ from it in their message only).
GenerationErrors == {"Fonte curta"}

\* RevisionResult (revision_status, revision_error) as revise_article
\* returns it to line 222.
RevisionResults ==
  {[revision_status |-> "revised", revision_error |-> ""],
   [revision_status |-> "unrevised", revision_error |-> "editor failed"]}

\* status = "SUCCESS" if rev.revision_status == "revised" else "FAILED"
GenerationStatus(rev) ==
  IF rev.revision_status = "revised" THEN "SUCCESS" ELSE "FAILED"

\* GenerationStage.run, lines 251-278: UPDATE ... WHERE legal_doc_id=?
GenerationUpdate(tbl, d, rev) ==
  {IF r.legal_doc_id = d
   THEN [r EXCEPT !.corpo_md = "body",
                  !.review_error = rev.revision_error,
                  !.review_status = GenerationStatus(rev)]
   ELSE r : r \in tbl}

\* GenerationStage.run, lines 283-292: UPDATE ... SET review_status='FAILED'
GenerationFail(tbl, d, msg) ==
  {IF r.legal_doc_id = d
   THEN [r EXCEPT !.review_status = "FAILED", !.review_error = msg]
   ELSE r : r \in tbl}

\* GenerationStage.run, lines 184-195.
GenerationStart(p, limit, threshold) ==
  /\ CanStart(p)
  /\ \E rows \in GenerationSelect(limit, threshold) :
       run' = [run EXCEPT ![p] = StartFrame("generation", threshold, rows)]
  /\ runs' = runs + 1
  /\ UNCHANGED <<now, call, rotVars, legal_docs, articles, next_id, runners>>

\* GenerationStage.run, lines 197-280: the draft was written and revised.
GenerationRowOk(p, rev) ==
  /\ AtRow(p, "generation")
  /\ LET f == run[p]
     IN /\ articles' = GenerationUpdate(articles, f.rows[f.ri], rev)
        /\ run' = [run EXCEPT ![p] = AfterRow(f, TRUE)]
  /\ UNCHANGED <<now, call, rotVars, legal_docs, next_id, runners, runs>>

\* GenerationStage.run, lines 197-246 and 281-294: the try block raised.
\* Every path of a row ends in a commit, so the rollback of line 282 finds
\* no statement to undo.
GenerationRowRaise(p, msg) ==
  /\ AtRow(p, "generation")
  /\ LET f == run[p]
     IN /\ articles' = GenerationFail(articles, f.rows[f.ri], msg)
        /\ run' = [run EXCEPT ![p] = AfterRow(f, FALSE)]
  /\ UNCHANGED <<now, call, rotVars, legal_docs, next_id, runners, runs>>

\* revision_stage._candidates, lines 15-26: ORDER BY final_score DESC
\* LIMIT ?; articles of equal score come in any order.
RevisionSelect(limit) ==
  LET el == {r \in articles : /\ r.legal_doc_id \in legal_docs
                              /\ r.review_status = "GENERATED"}
      k == IF Cardinality(el) < limit THEN Cardinality(el) ELSE limit
      score(r) == IF r.final_score.has THEN r.final_score.v ELSE 0 - 1
  IN {[i \in 1..k |-> s[i].legal_doc_id] :
        s \in {t \in [1..k -> el] :
                 /\ \A i, j \in 1..k : i # j => t[i] # t[j]
                 /\ \A i, j \in 1..k : i < j => score(t[i]) >= score(t[j])
                 /\ \A r \in el : (\A i \in 1..k : t[i] # r) =>
                      \A i \in 1..k : score(t[i]) >= score(r)}}

\* RevisionStage.run, lines 46-55.
RevisionStart(p, limit) ==
  /\ CanStart(p)
  /\ \E rows \in RevisionSelect(limit) :
       run' = [run EXCEPT ![p] = StartFrame("revision", 0, rows)]
  /\ runs' = runs + 1
  /\ UNCHANGED <<now, call, rotVars, legal_docs, articles, next_id, runners>>

\* RevisionStage.run, lines 56-58: r is a sqlite3.Row (line 48), which has
\* no method get; the AttributeError of r.get("titulo") is raised before
\* the try statement of line 67 and leaves run().
RevisionRow(p) ==
  /\ AtRow(p, "revision")
  /\ run' = [run EXCEPT ![p].result = "raised"]
  /\ UNCHANGED <<now, call, rotVars, legal_docs, articles, next_id, runners, runs>>

\* The caller of run() has its count or its exception.
RunDone(p) ==
  /\ p \in runners
  /\ run[p].result \in {"returned", "raised"}
  /\ run' = [run EXCEPT ![p] = IdleFrame]
  /\ UNCHANGED <<now, call, rotVars, legal_docs, articles, next_id, runners, runs>>

\* Time passes between two runs.
StageTick(d) ==
  /\ \A p \in runners : run[p].stage = "none"
  /\ now + d <= MaxNow
  /\ now' = now + d
  /\ UNCHANGED <<rotVars, stageVars, call>>

\* An article an earlier deployment left in the store with a draft.
DraftArticle(id, d) ==
  [NewArticle(id, d) EXCEPT !.review_status = "GENERATED",
                            !.final_score = SomeInt(7),
                            !.decision = "WRITE",
                            !.review_attempts = 1,
                            !.corpo_md = "body"]

\* The store a first run finds: no article, or the draft of one document.
InitialStores == {{}, {DraftArticle(1, 1)}}

InitStage ==
  /\ now = 0
  /\ RotatorInit
  /\ legal_docs = Docs
  /\ articles \in InitialStores
  /\ next_id = Cardinality(articles) + 1
  /\ runners = {1}
  /\ run = [p \in runners |-> IdleFrame]
  /\ runs = 0
  /\ call = NoCall

NextStage ==
  \/ \E p \in runners, l \in Limits, th \in SignificanceThresholds :
       JudgingStart(p, l, th)
  \/ \E p \in runners, sc \in ScoreSet : JudgingRowOk(p, sc)
  \/ \E p \in runners, e \in JudgeExceptions : JudgingRowRaise(p, e)
  \/ \E p \in runners, l \in Limits, th \in SignificanceThresholds :
       GenerationStart(p, l, th)
  \/ \E p \in runners, rev \in RevisionResults : GenerationRowOk(p, rev)
  \/ \E p \in runners, msg \in GenerationErrors : GenerationRowRaise(p, msg)
  \/ \E p \in runners, l \in Limits : RevisionStart(p, l)
  \/ \E p \in runners : RevisionRow(p)
  \/ \E p \in runners : RunDone(p)
  \/ \E d \in Advances : StageTick(d)

SpecStage == InitStage /\ [][NextStage]_vars

\* Two runners contend for the OverlapDocs documents of one store: their
\* runs overlap, and every statement of a run is one step.  (Lock waits of SQLite are
\* left out: every interleaving of the statements is allowed.)
OverlapDocs == 1

InitOverlap ==
  /\ now = 0
  /\ RotatorInit
  /\ legal_docs = 1..OverlapDocs
  /\ articles \in InitialStores
  /\ next_id = Cardinality(articles) + 1
  /\ runners = {1, 2}
  /\ run = [p \in runners |-> IdleFrame]
  /\ runs = 0
  /\ call = NoCall

SpecOverlap == InitOverlap /\ [][NextStage]_vars

\* ------------------------------------- judging through the stage client

\* The numbers of ModelSpec _build_rotator (lines 161-167) finds in the
\* pools of the stage.
PoolSizes == {0, 1}

\* The stage client of the judging stage (get_stage_client_director): specs
\* is the number of ModelSpec its pools give.  The client is made without a
\* rotator (line 192); run_json builds it on the first row (lines 209-213,
\* 237).
StageClient(n) == [fn |-> "LlmStageClient", done |-> FALSE, specs |-> n]

\* _build_rotator, lines 169-170
LlmStageErrorNoModels ==
  Exc("LlmStageError", "", NoneInt, NoneInt,
      "Nenhum modelo configurado para o stage", NoneInt, {})

InitStageClient ==
  /\ now = 0
  /\ RotatorInit
  /\ legal_docs = Docs
  /\ articles \in InitialStores
  /\ next_id = Cardinality(articles) + 1
  /\ runners = {1}
  /\ run = [p \in runners |-> IdleFrame]
  /\ runs = 0
  /\ call \in {StageClient(n) : n \in PoolSizes}

\* run_json for the row of a judging run, the pools empty: _get_rotator
\* calls _build_rotator, which raises, _rotator stays None, and the except
\* clause of JudgingStage.run (lines 131-180) writes the row.
RunJsonNoModels(p) ==
  /\ call.fn = "LlmStageClient"
  /\ call.specs = 0
  /\ JudgingRowRaise(p, LlmStageErrorNoModels)

\* run_json for the row of a judging run, the rotator built: the judge
\* answered.
RunJsonAnswers(p, final_score) ==
  /\ call.fn = "LlmStageClient"
  /\ call.specs > 0
  /\ JudgingRowOk(p, final_score)

\* run_json for the row of a judging run, the rotator built: the call
\* raised e.
RunJsonRaises(p, e) ==
  /\ call.fn = "LlmStageClient"
  /\ call.specs > 0
  /\ JudgingRowRaise(p, e)

NextStageClient ==
  \/ \E p \in runners, l \in Limits, th \in SignificanceThresholds :
       JudgingStart(p, l, th)
  \/ \E p \in runners : RunJsonNoModels(p)
  \/ \E p \in runners, sc \in ScoreSet : RunJsonAnswers(p, sc)
  \/ \E p \in runners, e \in JudgeExceptions : RunJsonRaises(p, e)
  \/ \E p \in runners : RunDone(p)
  \/ \E d \in Advances : StageTick(d)

SpecStageClient == InitStageClient /\ [][NextStageClient]_vars

\* ------------------------------------- judging with its transaction

\* The commit_every a JudgingStage is made with.
CommitEverySettings == {0, 1, 2}

\* The connection of a judging run: commit_every is the local of that name
\* (line 60), committed and committed_next_id are the store as of the last
\* commit, pending_ok counts the rows of the success upsert written since,
\* lost is what a crash took of them.
JudgingConn(commit_every, tbl, nid) ==
  [fn |-> "JudgingStage.run", done |-> FALSE, commit_every |-> commit_every,
   committed |-> tbl, committed_next_id |-> nid, pending_ok |-> 0,
   lost |-> 0]

\* A faulty variant: only the commit of line 189
CommitDue_final_only(processed, commit_every) == FALSE

\* line 182: the test before conn.commit()
CommitDue(processed, commit_every) ==
  processed > 0 /\ processed % commit_every = 0

\* lines 182-189: the connection after the row that left the frame f and
\* the store tbl; the commit of line 189 follows the last row at once.
AfterRowConn(c, f, tbl, nid, ok) ==
  IF CommitDue(f.processed, c.commit_every) \/ f.result = "returned"
  THEN [c EXCEPT !.committed = tbl, !.committed_next_id = nid,
                 !.pending_ok = 0]
  ELSE [c EXCEPT !.pending_ok = IF ok THEN @ + 1 ELSE @]

InitCommit ==
  /\ now = 0
  /\ RotatorInit
  /\ legal_docs = Docs
  /\ articles \in InitialStores
  /\ next_id = Cardinality(articles) + 1
  /\ runners = {1}
  /\ run = [p \in runners |-> IdleFrame]
  /\ runs = 0
  /\ call = JudgingConn(1, articles, next_id)

\* Judging runs started on one connection in one behaviour.
CommitRuns == 2

\* JudgingStage.run, lines 37-60, on a connection with nothing pending.
JudgingStartConn(p, limit, threshold, commit_every) ==
  /\ p \in runners
  /\ run[p].stage = "none"
  /\ runs < CommitRuns
  /\ run' = [run EXCEPT ![p] =
               StartFrame("judging", threshold, JudgingSelect(limit))]
  /\ runs' = runs + 1
  /\ call' = JudgingConn(Max(1, commit_every), articles, next_id)
  /\ UNCHANGED <<now, rotVars, legal_docs, articles, next_id, runners>>

\* JudgingStage.run, lines 62-129 and 182-190: the judge answered.
JudgingRowOkConn(p, final_score) ==
  /\ AtRow(p, "judging")
  /\ LET f == run[p]
         d == f.rows[f.ri]
     IN /\ articles' = JudgedUpsert(articles, next_id, d, final_score,
                                    Decision(final_score, f.threshold))
        /\ next_id' = NextId(articles, d)
        /\ run' = [run EXCEPT ![p] = AfterRow(f, TRUE)]
        /\ call' = AfterRowConn(call, run'[p], articles', next_id', TRUE)
  /\ UNCHANGED <<now, rotVars, legal_docs, runners, runs>>

\* JudgingStage.run, lines 62-84 and 131-190: the judge raised e.
JudgingRowRaiseConn(p, e) ==
  /\ AtRow(p, "judging")
  /\ LET f == run[p]
         d == f.rows[f.ri]
     IN /\ articles' = RetryUpsert(articles, next_id, d, e, now)
        /\ next_id' = NextId(articles, d)
        /\ run' = [run EXCEPT ![p] = AfterRow(f, FALSE)]
        /\ call' = AfterRowConn(call, run'[p], articles', next_id', FALSE)
  /\ UNCHANGED <<now, rotVars, legal_docs, runners, runs>>

\* The process of a run dies between two rows: the open transaction is
\* rolled back.
JudgingCrash(p) ==
  /\ AtRow(p, "judging")
  /\ articles' = call.committed
  /\ next_id' = call.committed_next_id
  /\ run' = [run EXCEPT ![p] = IdleFrame]
  /\ call' = [call EXCEPT !.pending_ok = 0, !.lost = call.pending_ok]
  /\ UNCHANGED <<now, rotVars, legal_docs, runners, runs>>

\* The caller of run() has its count.
RunDoneConn(p) ==
  /\ p \in runners
  /\ run[p].result = "returned"
  /\ run' = [run EXCEPT ![p] = IdleFrame]
  /\ UNCHANGED <<now, call, rotVars, legal_docs, articles, next_id, runners,
                 runs>>

NextCommit ==
  \/ \E p \in runners, l \in Limits, th \in SignificanceThresholds,
        ce \in CommitEverySettings : JudgingStartConn(p, l, th, ce)
  \/ \E p \in runners, sc \in ScoreSet : JudgingRowOkConn(p, sc)
  \/ \E p \in runners : JudgingRowRaiseConn(p, RotatorExhausted)
  \/ \E p \in runners : JudgingCrash(p)
  \/ \E p \in runners : RunDoneConn(p)

SpecCommit == InitCommit /\ [][NextCommit]_vars

\* ------------------------------------- judging runs without end

\* review_attempts is held to MaxAttempts where the runs go on without
\* end: no selection reads the column.
MaxAttempts == 2

HeldAttempts(tbl) ==
  {[r EXCEPT !.review_attempts = Min(@, MaxAttempts)] : r \in tbl}

\* The judging stage of a deployment: every run has the same limit.
RepeatedJudging(limit) ==
  [fn |-> "JudgingStage", done |-> FALSE, limit |-> limit]

InitRepeat ==
  /\ now = 0
  /\ RotatorInit
  /\ legal_docs = Docs
  /\ articles = {}
  /\ next_id = 1
  /\ runners = {1}
  /\ run = [p \in runners |-> IdleFrame]
  /\ runs = 0
  /\ call \in {RepeatedJudging(l) : l \in Limits}

\* JudgingStage.run, lines 37-60: one more run of the stage.
RepeatStart(p, threshold) ==
  /\ call.fn = "JudgingStage"
  /\ p \in runners
  /\ run[p].stage = "none"
  /\ run' = [run EXCEPT ![p] =
               StartFrame("judging", threshold, JudgingSelect(call.limit))]
  /\ UNCHANGED <<now, call, rotVars, legal_docs, articles, next_id, runners,
                 runs>>

\* JudgingStage.run, lines 62-84 and 131-190: the judge raised e.
RepeatRowRaise(p, e) ==
  /\ call.fn = "JudgingStage"
  /\ AtRow(p, "judging")
  /\ LET f == run[p]
         d == f.rows[f.ri]
     IN /\ articles' = HeldAttempts(RetryUpsert(articles, next_id, d, e, now))
        /\ next_id' = NextId(articles, d)
        /\ run' = [run EXCEPT ![p] = AfterRow(f, FALSE)]
  /\ UNCHANGED <<now, call, rotVars, legal_docs, runners, runs>>

NextRepeat ==
  \/ \E p \in runners, th \in SignificanceThresholds : RepeatStart(p, th)
  \/ \E p \in runners, sc \in ScoreSet : JudgingRowOk(p, sc)
  \/ \E p \in runners : RepeatRowRaise(p, RotatorExhausted)
  \/ \E p \in runners : RunDone(p)

SpecRepeat == InitRepeat /\ [][NextRepeat]_vars

\* The loop of a run and the return of run().
RowOrDone ==
  \E p \in runners :
    \/ \E sc \in ScoreSet : JudgingRowOk(p, sc)
    \/ RepeatRowRaise(p, RotatorExhausted)
    \/ RunDone(p)

\* Every judge call returns or raises and every run comes to its end, and
\* the stage is run again and again: a run is in progress infinitely often.
SpecRepeatLive ==
  /\ SpecRepeat
  /\ WF_vars(RowOrDone)
  /\ []<>(\E p \in runners : run[p].stage = "judging")

\* -------------------------------------------------- claims on the stages

\* C6 (as claimed): no run of a stage ends with an exception, and a run
\* that returns has given every selected row its write, in order.
C6_RowExceptionNeverEscapesRun ==
  \A p \in runners :
    /\ run[p].result # "raised"
    /\ run[p].result = "returned" => run[p].written = run[p].rows

\* C7: when a judging run returns, every selected document has its row;
\* the row of a document whose judging raised has review_status RETRY, a
\* non-empty review_error, a review_error_kind that is an ErrorKind value
\* and a review_next_retry_at later than the clock; the rows of the other
\* selected documents are JUDGED.
C7_JudgingFailureWrittenRetry ==
  \A p \in runners :
    (run[p].stage = "judging" /\ run[p].result = "returned") =>
      /\ run[p].written = run[p].rows
      /\ \A i \in 1..Len(run[p].rows) :
           LET rs == RowsOf(articles, run[p].rows[i])
           IN /\ rs # {}
              /\ \A r \in rs :
                   IF i \in run[p].failed
                   THEN /\ r.review_status = "RETRY"
                        /\ r.review_error \notin {NULL, ""}
                        /\ r.review_error_kind \in ErrorKind
                        /\ r.review_next_retry_at.has
                        /\ r.review_next_retry_at.v > now
                   ELSE r.review_status = "JUDGED"

\* C7 witness: a judging run of three rows has returned; the second row
\* raised the exception of the exhausted rotation and is in RETRY, the
\* first and the third are JUDGED.
C7_Witness ==
  \E p \in runners :
    /\ run[p].stage = "judging"
    /\ run[p].result = "returned"
    /\ Len(run[p].rows) = 3
    /\ run[p].failed = {2}
    /\ \E r \in RowsOf(articles, run[p].rows[2]) :
         /\ r.review_status = "RETRY"
         /\ r.review_error = RotatorExhausted.msg
         /\ r.review_error_kind = "provider_unavailable"
    /\ \A i \in {1, 3} : \E r \in RowsOf(articles, run[p].rows[i]) :
         r.review_status = "JUDGED"

\* C8: the successful judging write leaves a store on which the same write
\* for the same document and the same outcome changes nothing: the
\* document has one row, JUDGED, with the outcome's score and decision and
\* the error and retry columns NULL; review_attempts is 1 for a new row
\* and is what it was before for a row that existed.
C8_JudgedUpsertIdempotent ==
  [][\A p \in runners, sc \in ScoreSet :
       JudgingRowOk(p, sc) =>
         LET d == run[p].rows[run[p].ri]
             dec == Decision(sc, run[p].threshold)
         IN /\ JudgedUpsert(articles', next_id', d, sc, dec) = articles'
            /\ \E r \in articles' :
                 /\ RowsOf(articles', d) = {r}
                 /\ r.review_status = "JUDGED"
                 /\ r.final_score = SomeInt(sc)
                 /\ r.decision = dec
                 /\ r.review_error = NULL
                 /\ r.review_error_kind = NULL
                 /\ r.review_http_status = NoneInt
                 /\ r.review_next_retry_at = NoneInt
                 /\ RowsOf(articles, d) = {} => r.review_attempts = 1
                 /\ \A q \in RowsOf(articles, d) :
                      r.review_attempts = q.review_attempts]_vars

\* C8 witness: the successful write has updated a row that two failed
\* attempts had left in RETRY.
C8_Witness ==
  \E r \in articles :
    /\ r.review_status = "JUDGED"
    /\ r.review_attempts = 2
    /\ r.review_error = NULL
    /\ r.review_next_retry_at = NoneInt

\* C9: the article table holds at most one row per legal_doc_id.
C9_OneRowPerDocument ==
  \A r1, r2 \in articles : r1.legal_doc_id = r2.legal_doc_id => r1 = r2

\* C9 witness: two overlapping judging runs selected the same document and
\* both wrote it, one a failure and one a success; the document has its
\* one row.
C9_Witness ==
  /\ run[1].stage = "judging" /\ run[2].stage = "judging"
  /\ \E d \in legal_docs :
       /\ d \in InSeq(run[1].written)
       /\ d \in InSeq(run[2].written)
       /\ 1 \in run[1].failed \/ 2 \in run[1].failed
       /\ run[2].failed = {}
       /\ Cardinality(RowsOf(articles, d)) = 1

\* The review_status of a document: UNSET while it has no article.
StatusOf(tbl, d) ==
  IF RowsOf(tbl, d) = {} THEN {"UNSET"}
  ELSE {r.review_status : r \in RowsOf(tbl, d)}

\* The edges of the claimed status graph.
ClaimedEdges ==
  {<<"UNSET", "RETRY">>, <<"UNSET", "JUDGED">>, <<"RETRY", "RETRY">>,
   <<"RETRY", "JUDGED">>, <<"JUDGED", "GENERATED">>,
   <<"GENERATED", "REVIEWED">>, <<"REVIEWED", "SUCCESS">>}
  \cup ({"UNSET", "RETRY", "JUDGED", "GENERATED", "REVIEWED", "FAILED",
         "ERROR"} \X {"FAILED", "ERROR"})

\* C10 (as claimed): every step leaves the review_status of a document as it
\* is or moves it along an edge of the claimed graph.
C10_StatusMovesAlongClaimedEdges ==
  [][\A d \in legal_docs :
       \A a \in StatusOf(articles, d), b \in StatusOf(articles', d) :
         a = b \/ <<a, b>> \in ClaimedEdges]_vars

\* C11 (as claimed): a judging run that starts selects no document whose
\* row is in RETRY with a review_next_retry_at later than the clock.
C11_RetryNotSelectedBeforeDue ==
  [][\A p \in runners :
       (run[p].stage = "none" /\ run'[p].stage = "judging") =>
         \A i \in 1..Len(run'[p].rows) :
           \A r \in RowsOf(articles, run'[p].rows[i]) :
             (r.review_status = "RETRY" /\ r.review_next_retry_at.has) =>
               r.review_next_retry_at.v <= now]_vars

\* The cooldown the claim C12 names for a failure: that of its
\* classification, and 120 s for a failure of kind unknown.
ClaimedRetryCooldown(e) ==
  LET cls == classify_llm_error(e)
  IN IF cls.reason = "unknown" THEN 120 ELSE cls.cooldown_seconds

\* C12 (as claimed): the judging failure of a row sets its
\* review_next_retry_at to the clock plus the cooldown of the classified
\* error, or plus 120 s when the error is unclassified.
C12_NextRetryFromClassifiedCooldown ==
  [][\A p \in runners, e \in JudgeExceptions :
       JudgingRowRaise(p, e) =>
         \A r \in RowsOf(articles', run[p].rows[run[p].ri]) :
           r.review_next_retry_at = SomeInt(now + ClaimedRetryCooldown(e))]_vars

\* C13: the sticky preference changes only in the step in which a chat call
\* returns a response, and that step makes it the candidate that answered;
\* failing candidates and a call that ends in all-unavailable leave it alone.
C13_StickyChangesOnlyOnSuccess ==
  [][/\ (last_good' # last_good) =>
          (pc = "dispatch" /\ pc' = "returned" /\ last_good' = inflight)
     /\ (pc = "dispatch" /\ pc' = "returned") => last_good' = inflight
     /\ (pc = "dispatch" /\ pc' # "returned") => last_good' = last_good]_vars

\* A call ended in all-unavailable after the sticky candidate itself failed
\* in it, and the preference is still that candidate.
C13_Witness ==
  /\ pc = "raised"
  /\ last_good # <<>>
  /\ last_good[1] \in InSeq(attempted)

\* The number of positions of seq that hold x
Occurrences(seq, x) == Cardinality({i \in 1..Len(seq) : seq[i] = x})

NoRepeats(seq) == \A x \in InSeq(seq) : Occurrences(seq, x) = 1

\* The order the claim C14 describes, for the configured list ms, the
\* sticky candidate lg, the resolved preferred model pref and the order o.
OrderAsClaimed(ms, lg, pref, o) ==
  LET first == IF pref # <<>> THEN pref
               ELSE IF lg # <<>> /\ lg[1] \in InSeq(ms) THEN lg
               ELSE <<>>
  IN /\ InSeq(o) = InSeq(ms)
     /\ \A c \in InSeq(ms) : Occurrences(o, c) = 1
     /\ IF first # <<>>
        THEN Head(o) = first[1] /\ Tail(o) = Without(ms, first[1])
        ELSE o = ms

\* C14 (as claimed): the rotation order holds every configured candidate
\* exactly once, the resolved preferred model first, else the sticky
\* candidate if it is configured, the others after it in configured order;
\* with neither it is the configured order.
C14_OrderHoldsEachCandidateOnce ==
  (call.fn = "_ordered_models" /\ call.done) =>
    OrderAsClaimed(call.models, call.last_good, call.resolved, call.result)

\* C14 (amended): the same, for a configured list that names no candidate
\* twice.
C14_OrderOfDistinctCandidates ==
  (call.fn = "_ordered_models" /\ call.done /\ NoRepeats(call.models)) =>
    OrderAsClaimed(call.models, call.last_good, call.resolved, call.result)

\* Three distinct candidates, a preferred model that is not the first of
\* them and a configured sticky candidate that is another one: the preferred
\* model leads the order.
C14_Witness ==
  /\ call.fn = "_ordered_models"
  /\ call.done
  /\ NoRepeats(call.models)
  /\ Len(call.models) = 3
  /\ call.resolved # <<>>
  /\ call.last_good # <<>>
  /\ call.last_good[1] \in InSeq(call.models)
  /\ call.last_good # call.resolved
  /\ call.resolved[1] # call.models[1]
  /\ Head(call.result) = call.resolved[1]

\* C15: a chat call returns no response whose content is empty or only
\* whitespace; the step in which a candidate answers with such a content
\* leaves the sticky preference alone, puts that candidate into cooldown
\* and either gives the request to a later candidate of the order or ends
\* the call with an exception.
C15_EmptyCompletionIsFailure ==
  [][/\ (pc' = "returned") =>
          (outcome'.t = "response" /\ outcome'.content \notin {"", " "})
     /\ \A c \in {"", " "} :
          (pc = "dispatch" /\ (DispatchEmpty(c) \/ DispatchOk(c))) =>
            /\ pc' # "returned"
            /\ last_good' = last_good
            /\ cooldowns_model'[Key(inflight[1])] > now
            /\ idx' > idx
            /\ pc' = "dispatch" => inflight' = <<ordered[idx']>>
            /\ pc' # "dispatch" => (pc' = "raised" /\ outcome'.t = "raise")]_vars

\* A call returned the answer of its second request after the first
\* candidate answered with an empty completion.
C15_Witness ==
  /\ pc = "returned"
  /\ last_err = "Resposta vazia do LLM"
  /\ Len(attempted) = 2
  /\ last_good = <<attempted[2]>>
  /\ outcome.spec = <<attempted[2]>>
  /\ outcome.content = "text"

\* C16: the disabled set only grows; a step that changes it is the failure
\* of the candidate with the request with kind not_found, and it adds that
\* candidate alone.  No other step changes it: not a failure of another
\* kind, not an exception that is no LLMError, not an empty completion.
C16_DisabledOnlyGrowsByNotFound ==
  [][/\ disabled \subseteq disabled'
     /\ (disabled' # disabled) =>
          /\ \E d \in LLMErrorDetails :
               d.kind = "not_found" /\ DispatchLLMError(d)
          /\ disabled' = disabled \cup {Key(inflight[1])}]_vars

\* In one call a candidate failed with not_found and another one failed
\* otherwise: the first is disabled, the second is cooling and is not
\* disabled.
C16_Witness ==
  /\ pc = "raised"
  /\ Len(attempted) >= 2
  /\ Cardinality(disabled) = 1
  /\ Key(attempted[1]) \in disabled
  /\ Key(attempted[2]) \notin disabled
  /\ cooldowns_model[Key(attempted[2])] > now

\* The candidate with the request fails with kind rate_limit or not_found.
RateLimitOrNotFoundStep ==
  \E d \in LLMErrorDetails :
    d.kind \in {"rate_limit", "not_found"} /\ DispatchLLMError(d)

\* C17: the step in which the candidate with the request fails, otherwise
\* than with kind rate_limit or not_found, puts that candidate into
\* cooldown and leaves the provider cooldowns, the disabled set and the
\* cooldown of every other candidate as they were; a candidate that could
\* be given a request before the step can be given one after it.
C17_OtherFailuresCoolOnlyTheCandidate ==
  [][(pc = "dispatch" /\ now' = now /\ pc' # "returned") =>
       \/ /\ cooldowns_provider' = cooldowns_provider
          /\ disabled' = disabled
          /\ cooldowns_model'[Key(inflight[1])] > now
          /\ \A k \in KeySet \ {Key(inflight[1])} :
               cooldowns_model'[k] = cooldowns_model[k]
          /\ \A m \in ModelSet \ {inflight[1]} :
               ~(_is_disabled(m) \/ _is_in_cooldown(m)) =>
                 ~(_is_disabled(m) \/ _is_in_cooldown(m))'
       \/ RateLimitOrNotFoundStep]_vars

\* groq/a failed in this call and is cooling; its sibling groq/b has the
\* request now, with no provider cooldown and nothing disabled.
C17_Witness ==
  /\ pc = "dispatch"
  /\ attempted = <<ModelSpec(GROQ, "a"), ModelSpec(GROQ, "b")>>
  /\ inflight = <<ModelSpec(GROQ, "b")>>
  /\ cooldowns_model[Key(ModelSpec(GROQ, "a"))] > now
  /\ cooldowns_provider = [p \in LLMProvider |-> 0]
  /\ disabled = {}

\* The number of seconds ahead of time t at which the headers of the
\* response r place the reset (0 when they name none).
ResetAhead(r, t) ==
  Max(IF r.headers.retry_after.form = "number"
      THEN r.headers.retry_after.n ELSE 0,
      IF r.headers.reset.form = "number"
      THEN r.headers.reset.n - t ELSE 0)

\* C18 (as claimed): a 429 response whose headers place the reset T > 0
\* seconds ahead makes the transport raise an LLMError whose
\* cooldown_seconds is at least T, and makes the rotator cool the provider
\* down until at least T seconds from now.
C18_RateLimitCooldownCoversReset ==
  [][\A r \in Responses(now) :
       (r.status = 429 /\ ResetAhead(r, now) > 0 /\ DispatchHTTP(r)) =>
         LET e == _handle_response_text(r, now)
         IN /\ e.cls = "LLMError"
            /\ CooldownSeconds(e) >= ResetAhead(r, now)
            /\ cooldowns_provider'[inflight[1].provider] >=
                 now + ResetAhead(r, now)]_vars

\* C19 (as claimed): when the candidate with the request fails with kind
\* rate_limit, the rotator cools its provider down for the cooldown_seconds
\* of the error: the hint of the response when there is one, else 600 s.
C19_ProviderCooledForClassifiedCooldown ==
  [][\A d \in LLMErrorDetails :
       (d.kind = "rate_limit" /\ DispatchLLMError(d)) =>
         cooldowns_provider'[inflight[1].provider] =
           now + CooldownSeconds(d)]_vars

\* The retryable flag of an exception: LLMError.retryable, and for any
\* other exception that of its classification.
RetryableFlag(e) ==
  IF e.cls = "LLMError" THEN Retryable(e) ELSE classify_llm_error(e).retryable

\* C20 (as claimed): a classification with http_status 401 or 403 is not
\* retryable and one with http_status 429 or 500..599 is retryable, whatever
\* the message holds; and the exception the transport raises for a response
\* of such a status has the same flag.
C20_RetryableFollowsStatus ==
  (call.fn = "classify_llm_error" /\ call.done) =>
    /\ StatusIn(call.result.http_status, {401, 403}) =>
         ~call.result.retryable
    /\ StatusIn(call.result.http_status, {429} \cup (500..599)) =>
         call.result.retryable
    /\ StatusIn(call.from_status, {401, 403}) => ~RetryableFlag(call.e)
    /\ StatusIn(call.from_status, {429} \cup (500..599)) =>
         RetryableFlag(call.e)

\* The kind the classification table gives to an HTTP status.
KindOfStatus(status) ==
  IF status \in {401, 403} THEN "auth"
  ELSE IF status = 404 THEN "not_found"
  ELSE IF status = 429 THEN "rate_limit"
  ELSE IF status \in {400, 422} THEN "invalid_request"
  ELSE IF status \in 500..599 THEN "server_error"
  ELSE "unknown"

\* C21 (as claimed): the classification of an exception whose message holds
\* both an HTTP status and texts the classifier looks for has the kind of
\* the status.
C21_StatusBeatsMessage ==
  (/\ call.fn = "classify_llm_error"
   /\ call.done
   /\ call.e.cls = "Exception"
   /\ call.e.msg_status.has
   /\ call.e.marks # {}) =>
    call.result.reason = KindOfStatus(call.e.msg_status.v)

\* The row of the classification table for a kind: retryable and cooldown.
TableRetryable(kind) ==
  kind \in {"timeout", "rate_limit", "server_error", "provider_unavailable"}

TableCooldown(kind) ==
  IF kind = "timeout" THEN 90
  ELSE IF kind = "rate_limit" THEN 600
  ELSE IF kind \in {"server_error", "provider_unavailable"} THEN 120
  ELSE 0

\* The kind the table gives to an exception that is no LLMError and that
\* shows one thing only: its class, a status, or a text.
TableKind(e) ==
  IF e.cls = "TimeoutError" \/ e.marks = {"timed out"} THEN "timeout"
  ELSE IF e.msg_status.has THEN KindOfStatus(e.msg_status.v)
  ELSE IF e.marks = {"unavailable"} THEN "provider_unavailable"
  ELSE "unknown"

\* The classifier's part of C22: an exception that shows one thing only is
\* classified by the row of the table.
ClassifierFollowsTable ==
  (/\ call.fn = "classify_llm_error"
   /\ call.done
   /\ call.e.cls \in {"Exception", "TimeoutError"}
   /\ \/ call.e.cls = "TimeoutError" /\ call.e.marks = {}
         /\ ~call.e.msg_status.has
      \/ call.e.cls = "Exception" /\ call.e.marks = {}
      \/ call.e.cls = "Exception" /\ ~call.e.msg_status.has
         /\ call.e.marks \in {{"timed out"}, {"unavailable"}}) =>
    /\ call.result.reason = TableKind(call.e)
    /\ call.result.retryable = TableRetryable(TableKind(call.e))
    /\ call.result.cooldown_seconds = TableCooldown(TableKind(call.e))

\* C22 (as claimed): every failure is classified by the row of the table,
\* and a response of status 500..599 has kind server_error in the
\* transport's status mapping as in the classifier.
C22_ClassifiedPerTable ==
  /\ ClassifierFollowsTable
  /\ (/\ call.fn = "classify_llm_error"
      /\ call.done
      /\ StatusIn(call.from_status, 500..599)) =>
       _kind_from_status(call.from_status.v) = "server_error"

\* C23 (as claimed): post_json ends by returning the parsed object of a
\* 2xx response or by raising an LLMError; for a status outside 200..299 and
\* for a 2xx body that is no JSON object it raises an LLMError.
C23_ReturnsObjectOrRaisesLLMError ==
  (call.fn = "post_json" /\ call.done) =>
    \/ /\ call.pc = "returned"
       /\ call.parsed
       /\ call.status \in 200..299
    \/ /\ call.pc = "raised"
       /\ call.result.cls = "LLMError"

\* C24 (as claimed): no call of post_json returns a parsed body after more
\* than the budget; a call that got a response and whose connect, read and
\* body drain took more than the budget together raises an LLMError of kind
\* timeout, however many chunks the body had.
C24_OverBudgetRaisesTimeout ==
  (/\ call.fn = "post_json"
   /\ call.done
   /\ call.status # 0
   /\ call.result.cls # "ChunkedEncodingError"
   /\ call.elapsed > total_timeout(call)) =>
    /\ call.pc = "raised"
    /\ call.result.cls = "LLMError"
    /\ call.result.kind = "timeout"

\* C25 (as claimed): no call of post_json returns a body of more than
\* max_bytes bytes; once the bytes read exceed max_bytes the call has
\* stopped reading, has closed the response and has raised an LLMError of
\* kind invalid_request.
C25_OversizeRaisesInvalidRequest ==
  (call.fn = "post_json" /\ call.size > max_bytes) =>
    /\ call.pc = "raised"
    /\ call.closed
    /\ call.result.cls = "LLMError"
    /\ call.result.kind = "invalid_request"

\* C25 (amended): the same, except that the LLMError has kind timeout when
\* the chunk that exceeds max_bytes arrives after the time budget.
C25_OversizeStopsTheRead ==
  (call.fn = "post_json" /\ call.size > max_bytes) =>
    /\ call.pc = "raised"
    /\ call.closed
    /\ call.result.cls = "LLMError"
    /\ call.result.kind =
         IF call.elapsed > total_timeout(call) THEN "timeout"
         ELSE "invalid_request"

\* A body of max_bytes bytes was within the cap; the next byte ended the
\* call with invalid_request.
C25_Witness ==
  /\ call.fn = "post_json"
  /\ call.size = max_bytes + 1
  /\ call.pc = "raised"
  /\ call.closed
  /\ call.result.kind = "invalid_request"

\* The exception exc ends the call that has made n retries: is_retryable
\* refuses it or the retries are used up.
EndsTheCall(c, exc, n) ==
  \/ c.args.is_retryable = "given" /\ ~exc.retryable
  \/ n >= (IF c.args.retries.has THEN c.args.retries.v
           ELSE c.args.max_retries)

\* C26: the executor has slept once per retry and not before the first
\* attempt; a call that raised has raised the exception of its latest
\* attempt, which is_retryable refused or which came with the retries used
\* up, and it has not slept after it; and an attempt was followed by a retry
\* only when neither was the case.
C26_FirstAttemptAtOnceAndRaisesUnchanged ==
  (call.fn = "call_with_exponential_backoff") =>
    /\ call.calls = 0 => call.sleeps = <<>>
    /\ call.pc = "raised" =>
         /\ call.result = call.raised
         /\ call.result \in FnExceptions
         /\ Len(call.sleeps) = call.calls - 1
         /\ EndsTheCall(call, call.raised, call.attempt)
    /\ (call.pc = "try" /\ call.calls > 0) =>
         /\ Len(call.sleeps) = call.calls
         /\ ~EndsTheCall(call, call.raised, call.attempt - 1)

\* A call with two retries allowed slept after its first failure and raised
\* the second failure, which is_retryable refused, at once.
C26_Witness ==
  /\ call.fn = "call_with_exponential_backoff"
  /\ call.pc = "raised"
  /\ call.args.is_retryable = "given"
  /\ call.calls = 2
  /\ Len(call.sleeps) = 1
  /\ call.attempt < EffectiveMaxRetries(call.args)
  /\ call.result.name = "Permanent"

\* The sleeps of the call so far are non-decreasing from one retry to the
\* next for as long as they are below max_delay.
SleepsRiseToMaxDelay(c) ==
  \A k \in 1..(Len(c.sleeps) - 1) :
    c.sleeps[k] < 100 * c.args.max_delay => c.sleeps[k] <= c.sleeps[k + 1]

\* C27 as stated: within one call the sleep before retry k is non-decreasing
\* in k until it reaches max_delay and never exceeds max_delay * (1 + jitter),
\* whatever the jitter samples and retry_after_seconds.
C27_SleepsRiseAndStayUnderCap ==
  (call.fn = "call_with_exponential_backoff") =>
    /\ SleepsRiseToMaxDelay(call)
    /\ \A k \in 1..Len(call.sleeps) :
         call.sleeps[k] <= call.args.max_delay * (100 + call.args.jitter)

\* The larger of max_delay * (1 + jitter) and retry_after_seconds, in
\* hundredths of a second.
SleepCeiling(args) ==
  IF args.retry_after_seconds.has
  THEN Max(args.max_delay * (100 + args.jitter),
           100 * args.retry_after_seconds.v)
  ELSE args.max_delay * (100 + args.jitter)

\* C27: within one call no sleep exceeds the larger of
\* max_delay * (1 + jitter) and retry_after_seconds; the sleep before retry
\* k + 1 is not shorter than the one before retry k when jitter is 0, and
\* when jitter is at most a third and base_delay * 2^k is still within
\* max_delay.
C27_SleepsUnderCeilingAndRiseWhileDoubling ==
  (call.fn = "call_with_exponential_backoff") =>
    /\ \A k \in 1..Len(call.sleeps) :
         call.sleeps[k] <= SleepCeiling(call.args)
    /\ \A k \in 1..(Len(call.sleeps) - 1) :
         (\/ call.args.jitter = 0
          \/ /\ 3 * call.args.jitter <= 100
             /\ call.args.base_delay * Pow2(k) <= call.args.max_delay)
         => call.sleeps[k] <= call.sleeps[k + 1]

\* A call slept three times with jitter and no retry_after_seconds, the
\* third time for an exponential value held at max_delay.
C27_Witness ==
  /\ call.fn = "call_with_exponential_backoff"
  /\ Len(call.sleeps) = 3
  /\ call.args.jitter = 25
  /\ ~call.args.retry_after_seconds.has
  /\ call.args.base_delay * Pow2(2) > call.args.max_delay
  /\ call.sleeps[3] = call.args.max_delay * (100 + call.args.jitter)

\* min(max_delay, base_delay * 2^(k-1)), in seconds.
ExponentialValue(args, k) == Min(args.max_delay, args.base_delay * Pow2(k - 1))

\* C28: the sleep before retry k is min(max_delay, base_delay * 2^(k-1))
\* changed by at most the fraction jitter either way when no wait is
\* suggested, and it is not shorter than the retry_after_seconds of the
\* failure it follows when that failure holds one.
C28_SleepIsJitteredExponentialFlooredAtHint ==
  (/\ call.fn = "call_with_exponential_backoff"
   /\ call.pc = "try"
   /\ call.calls > 0) =>
    LET k == Len(call.sleeps)
        exponential == ExponentialValue(call.args, k)
    IN /\ exponential * (100 - call.args.jitter) <= call.sleeps[k]
       /\ (~call.args.retry_after_seconds.has
           /\ ~call.raised.retry_after_seconds.has) =>
            call.sleeps[k] <= exponential * (100 + call.args.jitter)
       /\ call.raised.retry_after_seconds.has =>
            call.sleeps[k] >= 100 * call.raised.retry_after_seconds.v

\* The call has invoked fn no more than max_retries + 1 times (retries in
\* the place of max_retries when given), once when the first invocation
\* returned, and if it is over it returned what fn returned or raised what
\* fn raised last.
BoundedAttempts(c) ==
  /\ c.calls <= 1 + (IF c.args.retries.has THEN c.args.retries.v
                     ELSE c.args.max_retries)
  /\ (c.pc = "returned" /\ c.sleeps = <<>>) => c.calls = 1
  /\ c.done =>
       \/ c.pc = "returned" /\ c.raised = NoFnException
       \/ c.pc = "raised" /\ c.result = c.raised /\ c.result \in FnExceptions

\* C29: the executor invokes fn at most max_retries + 1 times (retries
\* replacing max_retries when given), exactly once when the first attempt
\* succeeds, and with fn, is_retryable, on_retry and time.sleep returning it
\* always ends, with the result of fn or with its last exception.
C29_BoundedAttemptsAndTermination ==
  /\ [](call.fn = "call_with_exponential_backoff" => BoundedAttempts(call))
  /\ <>(call.fn = "call_with_exponential_backoff" /\ call.done)

\* A call with max_retries 3 and no alias invoked fn four times and raised
\* the fourth exception, which is_retryable accepted.
C29_Witness ==
  /\ call.fn = "call_with_exponential_backoff"
  /\ call.pc = "raised"
  /\ ~call.args.retries.has
  /\ call.args.max_retries = MaxRetryBudget
  /\ call.calls = MaxRetryBudget + 1
  /\ call.result.retryable

RowOfId(tbl, i) == CHOOSE r \in tbl : r.id = i

\* C32: no step lowers or removes the review_attempts of a row; the
\* failure write of a judging run raises it by exactly 1 on the row of its
\* document when there is one, and the success write leaves it as it was.
C32_ReviewAttemptsNeverDecrease ==
  [][/\ \A r \in articles :
          /\ \E r2 \in articles' : r2.id = r.id
          /\ RowOfId(articles', r.id).review_attempts >= r.review_attempts
     /\ \A p \in runners :
          (run[p].stage = "judging" /\ run[p].result = "running"
           /\ run'[p].ri = run[p].ri + 1) =>
            \A r \in RowsOf(articles, run[p].rows[run[p].ri]) :
              RowOfId(articles', r.id).review_attempts =
                IF run'[p].failed # run[p].failed
                THEN r.review_attempts + 1
                ELSE r.review_attempts]_vars

\* A document failed judging twice and was then judged: its row is JUDGED
\* with review_attempts 2.
C32_Witness ==
  \E r \in articles :
    /\ r.review_status = "JUDGED"
    /\ r.review_attempts = 2
    /\ \E p \in runners : run[p].stage = "judging" /\ run[p].processed > 0

\* The statuses past JUDGED: what generation and revision write.
BeyondJudged == {"GENERATED", "SUCCESS", "FAILED"}

\* C33 (as claimed): no step of any runner puts a row whose review_status
\* is past JUDGED back to JUDGED or RETRY.
C33_AdvancedRowNotPutBack ==
  [][\A r \in articles :
       r.review_status \in BeyondJudged =>
         \A r2 \in articles' :
           r2.id = r.id => r2.review_status \notin {"JUDGED", "RETRY"}]_vars

\* The scores of the call are computed for all the powers.
Scored == call.fn = "calculate_significance_score" /\ call.done

C35_OneRequestPerCandidate ==
  (call.fn = "LLMRotator.chat") =>
    /\ \A i, j \in 1..Len(call.dispatched) :
         i # j => call.dispatched[i] # call.dispatched[j]
    /\ call.requests = Len(call.dispatched)
    /\ call.requests <= call.n
    /\ call.done =>
         \/ call.outcome.t = "return"
         \/ call.outcome.type = "AllModelsUnavailableError"

\* The longest window a failure of the model opens.
LongestCooldown ==
  LET W == {FailureDelay(d) : d \in LLMErrorDetails}
             \cup {default_cooldown_seconds}
  IN CHOOSE w \in W : \A v \in W : v <= w

\* C36: the loop of a chat call passes over a candidate only if it is
\* disabled or one of its two deadlines is still ahead of the clock, so a
\* candidate that is not disabled is dispatched again once both have
\* passed; and every deadline a step sets is ahead of the clock by no more
\* than the longest cooldown.
C36_CooldownIsBoundedWindow ==
  [][/\ (pc \in {"idle", "dispatch"} /\ now' = now
         /\ (pc' # pc \/ idx' # idx \/ attempted' # attempted)) =>
          \A k \in (IF pc = "idle" THEN 1 ELSE idx + 1)..(idx' - 1) :
            \/ Key(ordered'[k]) \in disabled'
            \/ now' < cooldowns_model'[Key(ordered'[k])]
            \/ now' < cooldowns_provider'[ordered'[k].provider]
     /\ (cooldowns_model' # cooldowns_model) =>
          \A k \in KeySet :
            cooldowns_model'[k] # cooldowns_model[k] =>
              /\ now < cooldowns_model'[k]
              /\ cooldowns_model'[k] <= now + LongestCooldown
     /\ (cooldowns_provider' # cooldowns_provider) =>
          \A q \in LLMProvider :
            cooldowns_provider'[q] # cooldowns_provider[q] =>
              /\ now < cooldowns_provider'[q]
              /\ cooldowns_provider'[q] <= now + LongestCooldown]_vars

\* A request is with a candidate that had a deadline of its own and a
\* deadline of its provider, both passed.
C36_Witness ==
  /\ pc = "dispatch"
  /\ cooldowns_model[Key(inflight[1])] # 0
  /\ cooldowns_provider[inflight[1].provider] # 0
  /\ now >= cooldowns_model[Key(inflight[1])]
  /\ now >= cooldowns_provider[inflight[1].provider]

\* C37 (as claimed): with the judging stage run again and again under one
\* limit, every document comes to have its article row, whatever the
\* judge calls of the other documents do.
C37_UnjudgedEventuallyJudged ==
  \A d \in Docs : <>(RowsOf(articles, d) # {})

\* C38 (as claimed): a generation run that begins selects no document
\* whose article is in review_status FAILED (in these specifications the
\* generation stage is the only writer of FAILED).
C38_FailedRowNotSelectedAgain ==
  [][\A p \in runners :
       (run[p].stage = "none" /\ run'[p].stage = "generation") =>
         \A i \in 1..Len(run'[p].rows) :
           \A r \in RowsOf(articles, run'[p].rows[i]) :
             r.review_status # "FAILED"]_vars

\* What of the claim the code keeps: a row the stage marked FAILED with
\* its text written (the revision did not pass) is not selected again.
C38_FailedWithTextNotSelectedAgain ==
  [][\A p \in runners :
       (run[p].stage = "none" /\ run'[p].stage = "generation") =>
         \A i \in 1..Len(run'[p].rows) :
           \A r \in RowsOf(articles, run'[p].rows[i]) :
             ~(r.review_status = "FAILED" /\ r.corpo_md \notin {NULL, ""})]_vars

\* ------------------------------------------------- the publishing stage

\* The rows of news_articles a publishing run may find, and the runs of
\* PublishingStage that one specification makes.
PublishDocs == 2
PublishRuns == 2

\* titulo as the store holds it: NULL, blank, and titles of which two
\* differ in case and spacing only.
Titles == {NULL, " ", "Lei A", "lei  a", "Lei B"}

\* " ".join([t.casefold() for t in title.split() if t.strip()]), line 126,
\* of title = str(r["titulo"] or "").strip(), line 120.
title_key(t) ==
  CASE t = NULL -> ""
    [] t = " " -> ""
    [] t = "Lei A" -> "lei a"
    [] t = "lei  a" -> "lei a"
    [] t = "Lei B" -> "lei b"

\* What upsert_post returns as post_id: int(post.get("id") or 0).
PostIds == {0, 7}

\* A row of news_articles, with the columns the publishing stage reads and
\* writes.
PublishRow(i, rs, t) ==
  [id |-> i, review_status |-> rs, publishing_status |-> NULL,
   titulo |-> t, wp_post_id |-> 0, wp_error |-> NULL]

\* A faulty variant: the selection does not read publishing_status.
PublishingEligible_any_status(r) ==
  /\ r.review_status = "SUCCESS"
  /\ r.titulo # NULL
  /\ title_key(r.titulo) # ""

\* publishing_stage._candidates, lines 35-38: the WHERE clause.
PublishingEligible(r) ==
  /\ r.review_status = "SUCCESS"
  /\ (IF r.publishing_status = NULL THEN "PENDING"
      ELSE r.publishing_status) # "SUCCESS"
  /\ r.titulo # NULL
  /\ title_key(r.titulo) # ""

\* publishing_stage._candidates, lines 39-40: ORDER BY score_editorial
\* DESC, final_score DESC LIMIT ?.  The scores are not columns of this
\* model, so every order of the eligible rows is one the query can return.
\* The rows are returned as they are at the time of the query.
PublishingSelect(limit) ==
  LET el == {r \in articles : PublishingEligible(r)}
      k == IF Cardinality(el) < limit THEN Cardinality(el) ELSE limit
  IN {t \in [1..k -> el] : \A i, j \in 1..k : i # j => t[i] # t[j]}

\* The frame of a publishing run: its rows, the loop's position and
\* seen_title_keys.
PublishingFrame(rows) ==
  [stage |-> "publishing", rows |-> rows, ri |-> 1, seen_title_keys |-> {},
   published |-> 0,
   result |-> IF rows = <<>> THEN "returned" ELSE "running"]

\* What the publish target was sent: per row the number of upsert_post
\* calls, and the last call with the row as the store held it then.
PublishLog ==
  [fn |-> "PublishingStage.run", done |-> FALSE,
   sends |-> [i \in 1..PublishDocs |-> 0],
   last |-> [id |-> 0, existing_post_id |-> 0, raised |-> FALSE]]

\* The log after upsert_post was called for the row.
Sent(r, raised) ==
  [call EXCEPT !.sends[r.id] = @ + 1,
               !.last = [id |-> r.id,
                         existing_post_id |-> r.wp_post_id,
                         raised |-> raised]]

InitPublish ==
  /\ now = 0
  /\ RotatorInit
  /\ legal_docs = 1..PublishDocs
  /\ articles \in
       {{PublishRow(i, f[i][1], f[i][2]) : i \in 1..PublishDocs} :
          f \in [1..PublishDocs ->
                   {"SUCCESS", "JUDGED"} \X Titles]}
  /\ next_id = PublishDocs + 1
  /\ runners = {1}
  /\ run = [p \in runners |-> IdleFrame]
  /\ runs = 0
  /\ call = PublishLog

\* PublishingStage.run, lines 110-117.
PublishingStart(p, limit) ==
  /\ p \in runners
  /\ run[p].stage = "none"
  /\ runs < PublishRuns
  /\ \E rows \in PublishingSelect(limit) :
       run' = [run EXCEPT ![p] = PublishingFrame(rows)]
  /\ runs' = runs + 1
  /\ UNCHANGED <<now, call, rotVars, legal_docs, articles, next_id, runners>>

\* The frame after the loop went past the row at its position.
PublishingAfter(f, key, ok) ==
  [f EXCEPT !.ri = f.ri + 1,
            !.seen_title_keys = f.seen_title_keys \cup {key},
            !.published = IF ok THEN f.published + 1 ELSE f.published,
            !.result = IF f.ri = Len(f.rows) THEN "returned" ELSE "running"]

\* PublishingStage.run, lines 126-128: a title already seen in this run,
\* continue.
PublishingSkip(p) ==
  /\ AtRow(p, "publishing")
  /\ LET f == run[p]
         r == f.rows[f.ri]
     IN /\ title_key(r.titulo) \in f.seen_title_keys
        /\ run' = [run EXCEPT ![p] = PublishingAfter(f, title_key(r.titulo),
                                                      FALSE)]
  /\ UNCHANGED <<now, call, rotVars, legal_docs, articles, next_id, runners,
                 runs>>

\* publishing_stage._mark_published, lines 46-60: UPDATE ... WHERE id=?
mark_published(tbl, row_id, post_id) ==
  {IF r.id = row_id
   THEN [r EXCEPT !.publishing_status = "SUCCESS", !.wp_post_id = post_id,
                  !.wp_error = NULL]
   ELSE r : r \in tbl}

\* publishing_stage._mark_failed, lines 63-74: UPDATE ... WHERE id=?
mark_failed(tbl, row_id) ==
  {IF r.id = row_id
   THEN [r EXCEPT !.publishing_status = "FAILED", !.wp_error = "err"]
   ELSE r : r \in tbl}

\* PublishingStage.run, lines 131-143: upsert_post returned and the row was
\* marked.
PublishingRowOk(p, post_id) ==
  /\ AtRow(p, "publishing")
  /\ LET f == run[p]
         r == f.rows[f.ri]
     IN /\ title_key(r.titulo) \notin f.seen_title_keys
        /\ articles' = mark_published(articles, r.id, post_id)
        /\ call' = Sent(r, FALSE)
        /\ run' = [run EXCEPT ![p] = PublishingAfter(f, title_key(r.titulo),
                                                      TRUE)]
  /\ UNCHANGED <<now, rotVars, legal_docs, next_id, runners, runs>>

\* PublishingStage.run, lines 131-146: upsert_post raised.
PublishingRowRaise(p) ==
  /\ AtRow(p, "publishing")
  /\ LET f == run[p]
         r == f.rows[f.ri]
     IN /\ title_key(r.titulo) \notin f.seen_title_keys
        /\ articles' = mark_failed(articles, r.id)
        /\ call' = Sent(r, TRUE)
        /\ run' = [run EXCEPT ![p] = PublishingAfter(f, title_key(r.titulo),
                                                      FALSE)]
  /\ UNCHANGED <<now, rotVars, legal_docs, next_id, runners, runs>>

\* PublishingStage.run, line 149: return published.
PublishingDone(p) ==
  /\ p \in runners
  /\ run[p].stage = "publishing"
  /\ run[p].result = "returned"
  /\ run' = [run EXCEPT ![p] = IdleFrame]
  /\ UNCHANGED <<now, call, rotVars, legal_docs, articles, next_id, runners,
                 runs>>

\* Between two publishing runs a generation run rewrites a JUDGED row:
\* GenerationStage.run, lines 248-278, writes titulo and review_status.
GenerationWrites(i, rev, t) ==
  /\ \A p \in runners : run[p].stage = "none"
  /\ \E r \in articles :
       /\ r.id = i
       /\ r.review_status = "JUDGED"
       /\ articles' = (articles \ {r}) \cup
            {[r EXCEPT !.review_status = GenerationStatus(rev),
                       !.titulo = t]}
  /\ UNCHANGED <<now, call, rotVars, legal_docs, next_id, runners, run, runs>>

NextPublish ==
  \/ \E p \in runners, l \in {1, PublishDocs} : PublishingStart(p, l)
  \/ \E p \in runners : PublishingSkip(p)
  \/ \E p \in runners, post_id \in PostIds : PublishingRowOk(p, post_id)
  \/ \E p \in runners : PublishingRowRaise(p)
  \/ \E p \in runners : PublishingDone(p)
  \/ \E i \in 1..PublishDocs, rev \in RevisionResults :
       GenerationWrites(i, rev, "Lei B")

SpecPublish == InitPublish /\ [][NextPublish]_vars

\* C39: every call of upsert_post is for a row that the store holds with
\* review_status SUCCESS and a publishing_status other than SUCCESS, so a
\* row marked publishing_status SUCCESS is sent by no later run; a row
\* whose publish raised is marked FAILED and is eligible after the step.
C39_PublishesOnlyUnpublishedSuccessRows ==
  [][(call'.sends # call.sends) =>
       \A r \in articles :
         /\ (call'.sends[r.id] # call.sends[r.id]) =>
              /\ r.review_status = "SUCCESS"
              /\ r.publishing_status # "SUCCESS"
              /\ call'.last.raised =>
                   \E r2 \in articles' :
                     /\ r2.id = r.id
                     /\ r2.publishing_status = "FAILED"
                     /\ PublishingEligible(r2)
              /\ ~call'.last.raised =>
                   \E r2 \in articles' :
                     /\ r2.id = r.id
                     /\ r2.publishing_status = "SUCCESS"
         /\ r.publishing_status = "SUCCESS" =>
              call'.sends[r.id] = call.sends[r.id]]_vars

\* A second run sends a row again whose publish raised in the first, while
\* the other row, published by the first run, was sent once.
C39_Witness ==
  /\ runs = 2
  /\ call.last.raised = FALSE
  /\ \E r \in articles :
       /\ r.id = call.last.id
       /\ call.sends[r.id] = 2
       /\ r.publishing_status = "SUCCESS"
  /\ \E r \in articles :
       /\ r.id # call.last.id
       /\ r.publishing_status = "SUCCESS"
       /\ call.sends[r.id] = 1

\* ------------------------------------------------------- the log buffer

\* The threads that share one LogBuffer and the append calls they make in
\* all.
LogThreads == 2
MaxAppends == 3
Threads == 1..LogThreads

\* max_lines of the buffer.
MaxLinesSettings == {0, 1, 2}

\* LogLine(ts_utc, text): the text of the n-th append call is n.
LogLine(ts, text) == [ts_utc |-> ts, text |-> text]

\* collections.deque(maxlen=n).append: at maxlen the leftmost item is
\* discarded.
deque_append(q, x, maxlen) ==
  IF maxlen = 0 THEN q
  ELSE IF Len(q) = maxlen THEN Append(Tail(q), x)
  ELSE Append(q, x)

\* A thread that is in no call of the buffer.
ThreadIdle == [pc |-> "idle", line |-> LogLine(0, 0), buf |-> <<>>, i |-> 0]

\* LogBuffer.__init__, lines 22-25, with what the calls have appended
\* since the last clear (lines_since_clear) kept beside the deque.
LogBuffer(max_lines) ==
  [fn |-> "LogBuffer", done |-> FALSE, max_lines |-> max_lines,
   lock |-> 0, lines |-> <<>>, lines_since_clear |-> <<>>,
   clock |-> 0, appended |-> 0,
   thread |-> [t \in Threads |-> ThreadIdle]]

\* A faulty variant: the lock excludes nobody.
Acquirable_always == TRUE

\* threading.Lock: `with self._lock` goes on when no thread holds it.
Acquirable == call.lock = 0

InitLog ==
  /\ now = 0
  /\ RotatorInit
  /\ legal_docs = {}
  /\ articles = {}
  /\ next_id = 1
  /\ runners = {}
  /\ run = <<>>
  /\ runs = 0
  /\ call \in {LogBuffer(n) : n \in MaxLinesSettings}

\* Only the buffer and its threads change in these steps.
LogFrame == UNCHANGED <<now, rotVars, stageVars>>

\* LogBuffer.append, lines 31-33: the time is read and the line is made
\* before the lock is taken.
AppendStamp(t) ==
  /\ call.fn = "LogBuffer"
  /\ call.thread[t].pc = "idle"
  /\ call.appended < MaxAppends
  /\ call' = [call EXCEPT
       !.clock = @ + 1,
       !.appended = @ + 1,
       !.thread[t] = [ThreadIdle EXCEPT
                        !.pc = "append",
                        !.line = LogLine(call.clock + 1, call.appended + 1)]]
  /\ LogFrame

\* LogBuffer.append, line 34: with self._lock.
AppendLock(t) ==
  /\ call.fn = "LogBuffer"
  /\ call.thread[t].pc = "append"
  /\ Acquirable
  /\ call' = [call EXCEPT !.lock = t, !.thread[t].pc = "append_locked"]
  /\ LogFrame

\* LogBuffer.append, line 35, and the release of the lock.
AppendDo(t) ==
  /\ call.fn = "LogBuffer"
  /\ call.thread[t].pc = "append_locked"
  /\ call' = [call EXCEPT
       !.lines = deque_append(@, call.thread[t].line, call.max_lines),
       !.lines_since_clear = Append(@, call.thread[t].line),
       !.lock = 0,
       !.thread[t].pc = "idle"]
  /\ LogFrame

\* LogBuffer.snapshot, line 38: with self._lock.
SnapshotLock(t) ==
  /\ call.fn = "LogBuffer"
  /\ call.thread[t].pc = "idle"
  /\ Acquirable
  /\ call' = [call EXCEPT
       !.lock = t,
       !.thread[t] = [ThreadIdle EXCEPT !.pc = "snapshot_locked", !.i = 1]]
  /\ LogFrame

\* LogBuffer.snapshot, line 39: tuple(self._lines) takes the next item.
SnapshotCopy(t) ==
  /\ call.fn = "LogBuffer"
  /\ call.thread[t].pc = "snapshot_locked"
  /\ call.thread[t].i <= Len(call.lines)
  /\ call' = [call EXCEPT
       !.thread[t].buf = Append(@, call.lines[call.thread[t].i]),
       !.thread[t].i = @ + 1]
  /\ LogFrame

\* LogBuffer.snapshot, line 39: the tuple is complete.
SnapshotCopied(t) ==
  /\ call.fn = "LogBuffer"
  /\ call.thread[t].pc = "snapshot_locked"
  /\ call.thread[t].i > Len(call.lines)
  /\ call' = [call EXCEPT !.thread[t].pc = "snapshot_copied"]
  /\ LogFrame

\* LogBuffer.snapshot, line 39: return, the lock is released.
SnapshotReturn(t) ==
  /\ call.fn = "LogBuffer"
  /\ call.thread[t].pc = "snapshot_copied"
  /\ call' = [call EXCEPT !.lock = 0, !.thread[t].pc = "idle"]
  /\ LogFrame

\* LogBuffer.clear, line 46: with self._lock.
ClearLock(t) ==
  /\ call.fn = "LogBuffer"
  /\ call.thread[t].pc = "idle"
  /\ Acquirable
  /\ call' = [call EXCEPT
       !.lock = t,
       !.thread[t] = [ThreadIdle EXCEPT !.pc = "clear_locked"]]
  /\ LogFrame

\* LogBuffer.clear, line 47, and the release of the lock.
ClearDo(t) ==
  /\ call.fn = "LogBuffer"
  /\ call.thread[t].pc = "clear_locked"
  /\ call' = [call EXCEPT
       !.lines = <<>>,
       !.lines_since_clear = <<>>,
       !.lock = 0,
       !.thread[t].pc = "idle"]
  /\ LogFrame

NextLog ==
  \/ \E t \in Threads : AppendStamp(t)
  \/ \E t \in Threads : AppendLock(t)
  \/ \E t \in Threads : AppendDo(t)
  \/ \E t \in Threads : SnapshotLock(t)
  \/ \E t \in Threads : SnapshotCopy(t)
  \/ \E t \in Threads : SnapshotCopied(t)
  \/ \E t \in Threads : SnapshotReturn(t)
  \/ \E t \in Threads : ClearLock(t)
  \/ \E t \in Threads : ClearDo(t)

SpecLog == InitLog /\ [][NextLog]_vars

\* The last n items of a sequence.
Suffix(q, n) ==
  IF Len(q) <= n THEN q ELSE SubSeq(q, Len(q) - n + 1, Len(q))

\* C40: the buffer never holds more than max_lines lines; it holds the
\* last max_lines of the lines appended since the last clear, in the order
\* of their appends (the oldest were evicted); and the tuple a snapshot
\* returns is that same sequence of lines.
C40_BoundedRecentLinesInAppendOrder ==
  call.fn = "LogBuffer" =>
    /\ Len(call.lines) <= call.max_lines
    /\ call.lines = Suffix(call.lines_since_clear, call.max_lines)
    /\ \A t \in Threads :
         /\ call.thread[t].pc = "snapshot_locked" =>
              /\ call.thread[t].i - 1 <= Len(call.lines)
              /\ call.thread[t].buf =
                   SubSeq(call.lines, 1, call.thread[t].i - 1)
         /\ call.thread[t].pc = "snapshot_copied" =>
              call.thread[t].buf =
                Suffix(call.lines_since_clear, call.max_lines)

\* A snapshot is complete with max_lines lines after an older line was
\* evicted, while another thread waits with a line to append.
C40_Witness ==
  /\ call.fn = "LogBuffer"
  /\ \E t \in Threads :
       /\ call.thread[t].pc = "snapshot_copied"
       /\ Len(call.thread[t].buf) = call.max_lines
       /\ Len(call.lines_since_clear) > call.max_lines
  /\ \E t \in Threads : call.thread[t].pc = "append"

====
